---- MODULE Spec2Model ----
(***************************************************************************)
(* A model of the AI Lens repository (kaiye/ailens).                       *)
(*                                                                         *)
(*   - HashUtils (src/src/utils/debounce.ts): murmurhash3 and              *)
(*     calculateCodeHash, computed bit for bit on 32-bit words.            *)
(*   - LineBasedHashInference (src/unnamed/part_010): the per-file record  *)
(*     lists, the hash -> result cache and the match listener.             *)
(*   - AICodeAnalyzer.processNewAIItems (src/unnamed/part_003).            *)
(*   - DocumentVersionHistory.recordSnapshot (src/unnamed/part_008).       *)
(*   - CursorAIWatcher (src/unnamed/part_006): the unresolved queue, the   *)
(*     new-file retry path and the intermediate-state solver.              *)
(*                                                                         *)
(* Strings are sequences of UTF-16 code units (naturals).  A 32-bit word   *)
(* is a pair <<hi, lo>> of 16-bit halves, because the arithmetic of the    *)
(* hash wraps at 2^32.                                                     *)
(***************************************************************************)
EXTENDS Integers, Sequences, FiniteSets, TLC

\* ------------------------------------------------------------------------
\* 32-bit words
\* ------------------------------------------------------------------------

Two16 == 256 * 256

\* The one element of a set of one element.  {f(v) : v \in {e}} has the value
\* of e in hand before f is entered.
Only(S) == CHOOSE v \in S : TRUE

Pow2(n) == 2 ^ n

\* Bitwise exclusive or of two n-bit naturals (JavaScript's ^ on each half):
\* bit by bit, the low n \div 2 bits and the bits above them apart.
RECURSIVE XorBits(_, _, _)
XorBits(a, b, n) ==
    IF n = 0 THEN 0
    ELSE IF n = 1 THEN ((a % 2) + (b % 2)) % 2
    ELSE XorBits(a % Pow2(n \div 2), b % Pow2(n \div 2), n \div 2)
         + Pow2(n \div 2) * XorBits(a \div Pow2(n \div 2), b \div Pow2(n \div 2), n - (n \div 2))

Xor32(a, b) == <<XorBits(a[1], b[1], 16), XorBits(a[2], b[2], 16)>>

\* Low and high 16 bits of the product of two 16-bit naturals, computed in
\* pieces below 2^31.
Mul16Lo(x, y) == ((x % 256) * y + (((x \div 256) * y) % 256) * 256) % Two16
Mul16Hi(x, y) == ((x \div 256) * y + (((x % 256) * y) \div 256)) \div 256

\* A product that loses the high half of a: (a & 0xffff) * b, wrapped.
multiply32LowHalf(a, b) ==
    <<(Mul16Hi(a[2], b[2]) + Mul16Lo(a[2], b[1])) % Two16, Mul16Lo(a[2], b[2])>>

\* multiply32(a, b) of murmurhash3: ((a & 0xffff) * b + (((a >>> 16) * b &
\* 0xffff) << 16)) & 0xffffffff.  Both products are below 2^53, so the
\* doubles are exact and the value is a * b modulo 2^32.
multiply32(a, b) ==
    <<(Mul16Hi(a[2], b[2]) + Mul16Lo(a[2], b[1]) + Mul16Lo(a[1], b[2])) % Two16,
      Mul16Lo(a[2], b[2])>>

\* rotateLeft32(x, n) == (x << n) | (x >>> (32 - n)), for 0 < n < 16.
rotateLeft32(x, n) ==
    <<((x[1] * Pow2(n)) % Two16) + (x[2] \div Pow2(16 - n)),
      ((x[2] * Pow2(n)) % Two16) + (x[1] \div Pow2(16 - n))>>

\* (a + b) & 0xffffffff
Add32(a, b) ==
    <<(a[1] + b[1] + ((a[2] + b[2]) \div Two16)) % Two16, (a[2] + b[2]) % Two16>>

\* x >>> n for 0 < n <= 16
ShiftRight32(x, n) ==
    IF n = 16 THEN <<0, x[1]>>
    ELSE <<x[1] \div Pow2(n), (x[2] \div Pow2(n)) + (x[1] % Pow2(n)) * Pow2(16 - n)>>

\* A small natural (a length, a byte) as a word.
Word(n) == <<0, n>>

\* ------------------------------------------------------------------------
\* HashUtils.murmurhash3
\* ------------------------------------------------------------------------

C1Word == <<52382, 11601>>     \* c1 = 0xcc9e2d51
C2Word == <<7047, 13715>>      \* c2 = 0x1b873593
NWord  == <<58964, 27492>>     \* 0xe6546b64
F1Word == <<34283, 51819>>     \* 0x85ebca6b
F2Word == <<49842, 44597>>     \* 0xc2b2ae35

\* str.charCodeAt(i) & 0xff (i is 0-based, as in the source)
ByteAt(str, i) == str[i + 1] % 256

\* k1 = multiply32(k1, c1); k1 = rotateLeft32(k1, 15); k1 = multiply32(k1, c2)
MixK1(k1) ==
    Only({multiply32(r, C2Word) :
            r \in {Only({rotateLeft32(m, 15) : m \in {multiply32(k1, C1Word)}})}})

\* The four code units of block i, low byte of each, little-endian.
BlockK1(str, i) ==
    <<ByteAt(str, 4 * i + 2) + 256 * ByteAt(str, 4 * i + 3),
      ByteAt(str, 4 * i) + 256 * ByteAt(str, 4 * i + 1)>>

\* One round of the block loop.
BlockRound(h1, k1) ==
    Only({Add32(multiply32(rotateLeft32(x, 13), Word(5)), NWord) :
            x \in {Only({Xor32(h1, m) : m \in {MixK1(k1)}})}})

\* h1 after blocks lo .. hi-1, in order: the first half of the blocks, then
\* the second half from the h1 the first half has left.
RECURSIVE BlockRange(_, _, _, _)
BlockRange(str, h1, lo, hi) ==
    IF hi <= lo THEN h1
    ELSE IF hi = lo + 1 THEN BlockRound(h1, BlockK1(str, lo))
    ELSE Only({BlockRange(str, h, (lo + hi) \div 2, hi) :
                 h \in {BlockRange(str, h1, lo, (lo + hi) \div 2)}})

\* h1 after blocks 0 .. n-1
BlockLoop(str, h1, n) == BlockRange(str, h1, 0, n)

\* The tail: the len & 3 code units after the last full block.
TailK1(str, tailStart, tail) ==
    <<IF tail >= 3 THEN ByteAt(str, tailStart + 2) ELSE 0,
      (IF tail >= 2 THEN 256 * ByteAt(str, tailStart + 1) ELSE 0)
         + ByteAt(str, tailStart)>>

TailMix(str, h1) ==
    LET nblocks == Len(str) \div 4
        tail == Len(str) % 4
    IN IF tail > 0
       THEN Only({Xor32(h1, m) : m \in {MixK1(TailK1(str, nblocks * 4, tail))}})
       ELSE h1

\* h1 ^= len; h1 ^= h1 >>> 16; h1 *= 0x85ebca6b; h1 ^= h1 >>> 13;
\* h1 *= 0xc2b2ae35; h1 ^= h1 >>> 16
XorShift(h, n) == Xor32(h, ShiftRight32(h, n))

Fmix1(a) == Only({multiply32(b, F1Word) : b \in {XorShift(a, 16)}})

Fmix2(c) == Only({multiply32(d, F2Word) : d \in {XorShift(c, 13)}})

Finalize(h1, len) ==
    Only({XorShift(e, 16) :
            e \in {Only({Fmix2(c) :
                           c \in {Only({Fmix1(a) : a \in {Xor32(h1, Word(len))}})}})}})

\* The code unit of hexadecimal digit d: '0'..'9', 'a'..'f'.
HexDigit(d) == IF d < 10 THEN 48 + d ELSE 87 + d

\* The eight nibbles of a word, most significant first.
Nibbles(w) ==
    <<w[1] \div 4096, (w[1] \div 256) % 16, (w[1] \div 16) % 16, w[1] % 16,
      w[2] \div 4096, (w[2] \div 256) % 16, (w[2] \div 16) % 16, w[2] % 16>>

RECURSIVE StripZeros(_)
StripZeros(s) ==
    IF Len(s) > 1 /\ s[1] = 0 THEN StripZeros(Tail(s)) ELSE s

\* (h1 >>> 0).toString(16): lowercase digits, no leading zeros.
ToString16(w) ==
    LET ds == StripZeros(Nibbles(w))
    IN [i \in 1..Len(ds) |-> HexDigit(ds[i])]

murmurhash3(str, seed) ==
    Only({ToString16(f) :
            f \in {Only({Finalize(t, Len(str)) :
                           t \in {Only({TailMix(str, b) :
                                          b \in {BlockLoop(str, seed, Len(str) \div 4)}})}})}})

\* The strings ":" , "+" and "-".
Colon == <<58>>
OpAdd == <<43>>
OpDel == <<45>>

\* ------------------------------------------------------------------------
\* Strings
\* ------------------------------------------------------------------------

\* s.substring(from) with a 0-based start
Substring(s, from) == SubSeq(s, from + 1, Len(s))

\* s.startsWith(p)
StartsWith(s, p) == Len(p) <= Len(s) /\ SubSeq(s, 1, Len(p)) = p

\* s.endsWith(p)
EndsWith(s, p) == Len(p) <= Len(s) /\ SubSeq(s, Len(s) - Len(p) + 1, Len(s)) = p

\* s.includes(p)
Includes(s, p) ==
    \E i \in 0..(Len(s) - Len(p)) : SubSeq(s, i + 1, i + Len(p)) = p

Slash == <<47>>
Backslash == <<92>>

\* s.split('/').pop(): the part after the last '/'
RECURSIVE BaseName(_)
BaseName(s) ==
    IF \E i \in 1..Len(s) : s[i] = Slash[1]
    THEN BaseName(Substring(s, (CHOOSE i \in 1..Len(s) : s[i] = Slash[1])))
    ELSE s

\* The files and line contents of the modelled session: "a", "b", "d/a", the
\* absolute spelling "/w/a" of "a" in the workspace folder "/w", "x", "y".
FileA == <<97>>
FileB == <<98>>
AbsA == <<47, 119, 47, 97>>
AbsB == <<47, 119, 47, 98>>
TextX == <<120>>
TextY == <<121>>
TextEmpty == <<>>
TextOpen == <<40>>
TextOpenX == <<40, 120>>
TextFull == <<40, 120, 41>>
TextPair == <<40, 41>>

\* vscode.workspace.workspaceFolders: one folder, "/w"
WorkspaceFolders == << <<47, 119>> >>

\* The contents the intermediate-state solver is run on: console.log("hello"),
\* "x" in quotes, ((x)), and a line of one space and 102 times "x".
TextLog ==
    <<99, 111, 110, 115, 111, 108, 101, 46, 108, 111, 103, 40, 34, 104, 101, 108,
      108, 111, 34, 41>>
TextQuoted == <<34, 120, 34>>
TextNested == <<40, 40, 120, 41, 41>>
TextLong == <<32>> \o [i \in 1..102 |-> 120]
SolverContents == {TextLog, TextQuoted, TextNested, TextLong, TextFull}

\* pairedSymbols: each open symbol with its close symbol
pairedSymbols ==
    {<<40, 41>>, <<91, 93>>, <<123, 125>>, <<34, 34>>, <<39, 39>>, <<96, 96>>}

\* fullContent.substring(0, n) for every n
PrefixesOf(content) == {SubSeq(content, 1, n) : n \in 0..Len(content)}

\* beforePair + userInput + afterPair for every open symbol of the content,
\* every later occurrence of its close symbol and every length of the input
RebuildsOf(content) ==
    {SubSeq(content, 1, o) \o SubSeq(content, o + 1, o + n) \o SubSeq(content, c, Len(content)) :
        <<o, c, n>> \in {t \in (1..Len(content)) \X (1..Len(content)) \X (0..Len(content)) :
                            /\ t[1] < t[2]
                            /\ <<content[t[1]], content[t[2]]>> \in pairedSymbols
                            /\ t[3] <= t[2] - t[1] - 1}}

\* Every text the solver hashes on these contents.
SolverTexts == UNION {PrefixesOf(content) \cup RebuildsOf(content) : content \in SolverContents}

\* Every hash input of the modelled session, hashed once.
Files == {FileA, FileB, AbsA}
Operations == {OpAdd, OpDel}
Texts == {TextX, TextY, TextEmpty, TextOpen, TextOpenX, TextFull, TextPair}
KnownInputs == {f \o Colon \o op \o c : f \in Files, op \in Operations, c \in Texts}
HashTable == [k \in KnownInputs |-> murmurhash3(k, Word(0))]

\* Every hash input of the solver's runs with its hash, hashed once.
SolverInputs == {FileA \o Colon \o OpDel \o c : c \in SolverTexts}
SolverHashTable == {<<k, murmurhash3(k, Word(0))>> : k \in SolverInputs}

VARIABLES hasher    \* the last call of HashUtils and the first call of calculateCodeHash

\* A hash that leaves the operation out of its input.
calculateCodeHashNoOp(fileName, operation, content) ==
    murmurhash3(fileName \o Colon \o content, Word(0))

\* calculateCodeHash: murmurhash3(`${fileName}:${operation}${content}`, 0)
calculateCodeHash(fileName, operation, content) ==
    IF content \in Texts
    THEN HashTable[fileName \o Colon \o operation \o content]
    ELSE (CHOOSE entry \in SolverHashTable :
            entry[1] = fileName \o Colon \o operation \o content)[2]

\* ------------------------------------------------------------------------
\* MurmurHash3 x86_32 as it is published, on a sequence of units: blocks of
\* four units, little-endian; k *= c1, k = rotl(k, 15), k *= c2; h ^= k,
\* h = rotl(h, 13), h = h * 5 + 0xe6546b64; the tail; h ^= len and fmix32.
\* Products are by long multiplication on bytes, shifts a bit at a time.
\* ------------------------------------------------------------------------

Double32(x) == Add32(x, x)

Halve32(x) == <<x[1] \div 2, (x[2] \div 2) + (x[1] % 2) * 32768>>

RECURSIVE RefShl(_, _)
RefShl(x, n) == IF n = 0 THEN x ELSE Only({RefShl(d, n - 1) : d \in {Double32(x)}})

RECURSIVE RefShr(_, _)
RefShr(x, n) == IF n = 0 THEN x ELSE Only({RefShr(d, n - 1) : d \in {Halve32(x)}})

RECURSIVE RefRotl(_, _)
RefRotl(x, n) ==
    IF n = 0 THEN x
    ELSE Only({RefRotl(d, n - 1) : d \in {Add32(Double32(x), Word(x[1] \div 32768))}})

\* The four bytes of a word, the lowest first.
BytesOf(x) == <<x[2] % 256, x[2] \div 256, x[1] % 256, x[1] \div 256>>

\* The columns of the long multiplication of two words byte by byte, each
\* with the carry of the column below.
RefCol0(a, b) == a[1] * b[1]
RefCol1(a, b) == a[1] * b[2] + a[2] * b[1] + (RefCol0(a, b) \div 256)
RefCol2(a, b) == a[1] * b[3] + a[2] * b[2] + a[3] * b[1] + (RefCol1(a, b) \div 256)
RefCol3(a, b) ==
    a[1] * b[4] + a[2] * b[3] + a[3] * b[2] + a[4] * b[1] + (RefCol2(a, b) \div 256)

RefMulBytes(a, b) ==
    <<(RefCol2(a, b) % 256) + 256 * (RefCol3(a, b) % 256),
      (RefCol0(a, b) % 256) + 256 * (RefCol1(a, b) % 256)>>

\* a * b modulo 2^32
RefMul(a, b) == RefMulBytes(BytesOf(a), BytesOf(b))

\* Bitwise or of two n-bit naturals.
RECURSIVE OrBits(_, _, _)
OrBits(a, b, n) ==
    IF n = 0 THEN 0
    ELSE (IF (a % 2) + (b % 2) > 0 THEN 1 ELSE 0) + 2 * OrBits(a \div 2, b \div 2, n - 1)

Or32(a, b) == <<OrBits(a[1], b[1], 16), OrBits(a[2], b[2], 16)>>

\* The unit at 0-based index i, 0 beyond the end.
UnitAt(units, i) == IF i < Len(units) THEN Word(units[i + 1]) ELSE Word(0)

\* u0 | u1 << 8 | u2 << 16 | u3 << 24 of the units from index i on
RefWordOf(u0, u1, u2, u3) == Or32(Or32(u0, u1), Or32(u2, u3))

RefWord(units, i) ==
    Only({RefWordOf(UnitAt(units, i), u1, u2, u3) :
            u1 \in {RefShl(UnitAt(units, i + 1), 8)},
            u2 \in {RefShl(UnitAt(units, i + 2), 16)},
            u3 \in {RefShl(UnitAt(units, i + 3), 24)}})

\* k *= c1; k = rotl(k, 15); k *= c2
RefMixK(k) ==
    Only({RefMul(r, C2Word) : r \in {RefRotl(m, 15) : m \in {RefMul(k, C1Word)}}})

\* h ^= k; h = rotl(h, 13); h = h * 5 + 0xe6546b64
RefRound(h, k) ==
    Only({Add32(RefMul(r, Word(5)), NWord) :
            r \in {RefRotl(x, 13) : x \in {Xor32(h, m) : m \in {RefMixK(k)}}}})

\* The blocks from block i on.
RECURSIVE RefBlocks(_, _, _)
RefBlocks(units, h, i) ==
    IF i >= Len(units) \div 4 THEN h
    ELSE Only({RefBlocks(units, r, i + 1) :
                 r \in {RefRound(h, k) : k \in {RefWord(units, 4 * i)}}})

\* The tail: the units after the last block, as a block filled with zeros.
RefTail(units, h) ==
    IF Len(units) % 4 = 0 THEN h
    ELSE Only({Xor32(h, m) :
                 m \in {RefMixK(k) : k \in {RefWord(units, 4 * (Len(units) \div 4))}}})

RefXorShift(h, n) == Only({Xor32(h, s) : s \in {RefShr(h, n)}})

\* h ^= h >> 16; h *= 0x85ebca6b; h ^= h >> 13; h *= 0xc2b2ae35; h ^= h >> 16
RefFmix(h) ==
    Only({RefXorShift(e, 16) :
            e \in {RefMul(d, F2Word) :
                     d \in {RefXorShift(c, 13) :
                              c \in {RefMul(b, F1Word) : b \in {RefXorShift(h, 16)}}}}})

RefMurmur3(units, seed) ==
    Only({RefFmix(Xor32(t, Word(Len(units)))) :
            t \in {RefTail(units, h) : h \in {RefBlocks(units, seed, 0)}}})

\* The low byte of every code unit.
LowBytes(str) == [i \in 1..Len(str) |-> str[i] % 256]

\* ------------------------------------------------------------------------
\* LineBasedHashInference
\* ------------------------------------------------------------------------

\* The source's limits are 1000 records per file and 5000 cache entries; the
\* model keeps the code and scales the two numbers so that the overflow
\* branches are reached.
MAX_LINES_PER_FILE == 2
MAX_CACHE_SIZE == 2

VARIABLES
    recentLines,          \* Map fileName -> LineContent[], in insertion order
    hashToContentCache,   \* Map hash -> HashInferenceResult, in insertion order
    listenerCalls,        \* onHashMatchFound invocations so far, per hash
    matchedHashes,        \* AICodeAnalyzer.matchedHashes
    unmatchedAIItems,     \* AICodeAnalyzer.unmatchedAIItems
    histories,            \* DocumentVersionHistory.histories
    now                   \* Date.now(), in ticks

\* The engine's own fields, threaded through its methods.
Engine == [lines |-> recentLines, cache |-> hashToContentCache, calls |-> listenerCalls]

\* The index of fileName's entry in a Map kept as a sequence, 0 when absent.
EntryIndex(entries, fileName) ==
    IF \E k \in 1..Len(entries) : entries[k].fileName = fileName
    THEN CHOOSE k \in 1..Len(entries) : entries[k].fileName = fileName
    ELSE 0

\* A record list that is never trimmed.
KeepAllLines(lines) == lines

\* lines.splice(0, lines.length - MAX_LINES_PER_FILE) when over the limit
TrimLines(lines) ==
    IF Len(lines) > MAX_LINES_PER_FILE
    THEN SubSeq(lines, Len(lines) - MAX_LINES_PER_FILE + 1, Len(lines))
    ELSE lines

\* recordLineContent(lineContent)
recordLineContent(entries, lineContent) ==
    LET k == EntryIndex(entries, lineContent.fileName)
    IN IF k = 0
       THEN Append(entries, [fileName |-> lineContent.fileName,
                             lines |-> TrimLines(<<lineContent>>)])
       ELSE [entries EXCEPT ![k].lines = TrimLines(Append(@, lineContent))]

IsLetter(c) == c \in 65..90 \/ c \in 97..122

\* isAbsolutePath: starts with '/', with a drive letter and ':', or with '\\'
isAbsolutePath(filePath) ==
    \/ StartsWith(filePath, Slash)
    \/ Len(filePath) >= 2 /\ IsLetter(filePath[1]) /\ filePath[2] = Colon[1]
    \/ StartsWith(filePath, Backslash \o Backslash)

\* The rest of filePath after workspacePath, without a leading separator.
StripFolder(filePath, workspacePath) ==
    LET relativePath == Substring(filePath, Len(workspacePath))
    IN IF StartsWith(relativePath, Slash) \/ StartsWith(relativePath, Backslash)
       THEN Substring(relativePath, 1)
       ELSE relativePath

\* getRelativeFileName: relative to the first workspace folder that prefixes it
getRelativeFileName(filePath) ==
    IF \E k \in 1..Len(WorkspaceFolders) : StartsWith(filePath, WorkspaceFolders[k])
    THEN LET k == CHOOSE j \in 1..Len(WorkspaceFolders) :
                    /\ StartsWith(filePath, WorkspaceFolders[j])
                    /\ \A m \in 1..(j - 1) : ~StartsWith(filePath, WorkspaceFolders[m])
         IN StripFolder(filePath, WorkspaceFolders[k])
    ELSE filePath

\* A relatedness check that lets every file through.
isFileNameRelatedAlways(aiFileName, docFileName) == TRUE

\* isFileNameRelated(aiFileName, docFileName)
isFileNameRelated(aiFileName, docFileName) ==
    \/ aiFileName = docFileName
    \/ Includes(aiFileName, docFileName)
    \/ Includes(docFileName, aiFileName)
    \/ BaseName(aiFileName) = BaseName(docFileName) /\ BaseName(aiFileName) # <<>>

\* No file name: the value of a missing metadata.fileName, and of "no match".
NoName == <<>>

\* A scan that does not skip used records.
IsCandidateAlways(record) == TRUE

\* if (record.used) continue
IsCandidate(record) == ~record.used

\* The file name under which record's hash equals the item's: the name as
\* given, else (for an absolute name) the workspace-relative one, else NoName.
MatchedNameAmong(aiItem, record, aiFileName, relativePath) ==
    IF calculateCodeHash(aiFileName, record.operation, record.content) = aiItem.hash
    THEN aiFileName
    ELSE IF /\ isAbsolutePath(aiFileName)
            /\ relativePath # aiFileName
            /\ calculateCodeHash(relativePath, record.operation, record.content) = aiItem.hash
    THEN relativePath
    ELSE NoName

MatchedName(aiItem, record) ==
    MatchedNameAmong(aiItem, record, aiItem.fileName, getRelativeFileName(aiItem.fileName))

\* The first index >= i of a record of lineContents that matches, 0 if none.
RECURSIVE FindRecord(_, _, _)
FindRecord(lineContents, aiItem, i) ==
    IF i > Len(lineContents) THEN 0
    ELSE IF IsCandidate(lineContents[i]) /\ MatchedName(aiItem, lineContents[i]) # NoName
    THEN i
    ELSE FindRecord(lineContents, aiItem, i + 1)

\* The first index >= k of a related file that holds a matching record, 0 if none.
RECURSIVE FindFile(_, _, _)
FindFile(fileEntries, aiItem, k) ==
    IF k > Len(fileEntries) THEN 0
    ELSE IF /\ isFileNameRelated(aiItem.fileName, fileEntries[k].fileName)
            /\ FindRecord(fileEntries[k].lines, aiItem, 1) # 0
    THEN k
    ELSE FindFile(fileEntries, aiItem, k + 1)

\* The result object built from a matched record.
ResultOf(aiItem, record) ==
    [hash |-> aiItem.hash,
     content |-> record.content,
     operation |-> record.operation,
     lineNumber |-> record.lineNumber,
     source |-> IF record.operation = OpAdd THEN "full_line" ELSE "deleted_fragment"]

\* A result cache that is never consulted.
CacheHasNever(cache, hash) == FALSE

\* hashToContentCache.has(hash)
CacheHas(cache, hash) == \E k \in 1..Len(cache) : cache[k].hash = hash

\* hashToContentCache.get(hash)
CacheGet(cache, hash) == cache[CHOOSE k \in 1..Len(cache) : cache[k].hash = hash].result

\* hashToContentCache.set(hash, result): a new key goes last, a held key
\* keeps its place.
CacheSet(cache, hash, result) ==
    IF CacheHas(cache, hash)
    THEN [k \in 1..Len(cache) |->
            IF cache[k].hash = hash THEN [hash |-> hash, result |-> result] ELSE cache[k]]
    ELSE Append(cache, [hash |-> hash, result |-> result])

\* A cut of the cache that keeps the oldest half instead of the newest.
checkCacheSizeKeepOldest(cache) ==
    IF Len(cache) > MAX_CACHE_SIZE
    THEN SubSeq(cache, 1, MAX_CACHE_SIZE \div 2)
    ELSE cache

\* checkCacheSize: over the limit, keep the last floor(MAX_CACHE_SIZE / 2)
checkCacheSize(cache) ==
    LET keepCount == MAX_CACHE_SIZE \div 2
    IN IF Len(cache) > MAX_CACHE_SIZE
       THEN SubSeq(cache, Len(cache) - keepCount + 1, Len(cache))
       ELSE cache

\* record.used = true (consumers counts the items that consumed the record)
MarkUsed(record) == [record EXCEPT !.used = TRUE, !.consumers = @ + 1]

\* The match: record i of file k is marked used, the result is cached, the
\* cache is cut to size and the listener is called.
ConsumeRecord(eng, aiItem, k, i) ==
    [eng |-> [lines |-> [eng.lines EXCEPT ![k].lines[i] = MarkUsed(@)],
              cache |-> checkCacheSize(CacheSet(eng.cache, aiItem.hash,
                                                ResultOf(aiItem, eng.lines[k].lines[i]))),
              calls |-> [eng.calls EXCEPT ![aiItem.hash] = @ + 1]],
     result |-> <<ResultOf(aiItem, eng.lines[k].lines[i])>>]

\* The scan of the files: file k holds the first match, or k = 0.
ScanRecords(eng, aiItem, k) ==
    IF k = 0 THEN [eng |-> eng, result |-> <<>>]
    ELSE ConsumeRecord(eng, aiItem, k, FindRecord(eng.lines[k].lines, aiItem, 1))

\* inferSingleHash without the look in the cache: every item scans the records.
inferSingleHashNoCache(eng, aiItem, inferenceTime) ==
    IF aiItem.fileName = NoName THEN [eng |-> eng, result |-> <<>>]
    ELSE ScanRecords(eng, aiItem, FindFile(eng.lines, aiItem, 1))

\* inferSingleHash with the look in the cache before the check of the file
\* name.
inferSingleHashCacheFirst(eng, aiItem, inferenceTime) ==
    IF CacheHas(eng.cache, aiItem.hash)
    THEN [eng |-> eng, result |-> <<CacheGet(eng.cache, aiItem.hash)>>]
    ELSE IF aiItem.fileName = NoName THEN [eng |-> eng, result |-> <<>>]
    ELSE ScanRecords(eng, aiItem, FindFile(eng.lines, aiItem, 1))

\* inferSingleHash(aiItem, inferenceTime): the engine afterwards and the
\* result, a sequence of one result or none.
inferSingleHash(eng, aiItem, inferenceTime) ==
    IF aiItem.fileName = NoName THEN [eng |-> eng, result |-> <<>>]
    ELSE IF CacheHas(eng.cache, aiItem.hash)
    THEN [eng |-> eng, result |-> <<CacheGet(eng.cache, aiItem.hash)>>]
    ELSE ScanRecords(eng, aiItem, FindFile(eng.lines, aiItem, 1))

\* Results that are returned with the first item's result last.
WithFirstLast(first, rest) == [eng |-> rest.eng, results |-> rest.results \o first.result]

\* The results of a batch: the first item's result before the others'.
WithFirst(first, rest) == [eng |-> rest.eng, results |-> first.result \o rest.results]

\* inferHashContents(aiItems, inferenceTime): the items in the order given,
\* each against the engine the one before left.
RECURSIVE inferHashContents(_, _, _)
RECURSIVE InferRest(_, _, _)
InferRest(first, aiItems, inferenceTime) ==
    WithFirst(first, inferHashContents(first.eng, aiItems, inferenceTime))

inferHashContents(eng, aiItems, inferenceTime) ==
    IF aiItems = <<>> THEN [eng |-> eng, results |-> <<>>]
    ELSE InferRest(inferSingleHash(eng, Head(aiItems), inferenceTime), Tail(aiItems),
                   inferenceTime)

\* A cleanup that goes by age alone.
KeptByAge(lines, cutoff) ==
    SelectSeq(lines, LAMBDA line : line.timestamp >= cutoff)

\* The records of lines that cleanup keeps: the unused ones, and the used
\* ones not older than cutoff.
KeptByCleanup(lines, cutoff) ==
    SelectSeq(lines, LAMBDA line : IF line.used THEN line.timestamp >= cutoff ELSE TRUE)

\* cleanup(maxAge): filter every file's list, drop the files left empty
RECURSIVE cleanup(_, _)
cleanup(entries, cutoff) ==
    IF entries = <<>> THEN <<>>
    ELSE LET filteredLines == KeptByCleanup(Head(entries).lines, cutoff)
         IN (IF filteredLines = <<>> THEN <<>>
             ELSE <<[fileName |-> Head(entries).fileName, lines |-> filteredLines]>>)
            \o cleanup(Tail(entries), cutoff)

\* ------------------------------------------------------------------------
\* DocumentVersionHistory
\* ------------------------------------------------------------------------

\* The source keeps 50 versions per file for 10 minutes. One tick of the
\* model's clock is 5 minutes, so TIME_WINDOW (300000 ms) is 1 tick and
\* MAX_HISTORY_TIME (600000 ms) is 2.
MAX_VERSIONS_PER_FILE == 2
MAX_HISTORY_TIME == 2
TIME_WINDOW == 1

\* cleanupOldVersions(fileName), on the file's list
cleanupOldVersions(fileHistory, time) ==
    SelectSeq(fileHistory, LAMBDA snapshot : snapshot.timestamp >= time - MAX_HISTORY_TIME)

\* fileHistory.splice(0, fileHistory.length - MAX_VERSIONS_PER_FILE) when over the limit
TrimVersions(fileHistory) ==
    IF Len(fileHistory) > MAX_VERSIONS_PER_FILE
    THEN SubSeq(fileHistory, Len(fileHistory) - MAX_VERSIONS_PER_FILE + 1, Len(fileHistory))
    ELSE fileHistory

\* cleanupAllOldVersions(): every file's list is filtered, and a file left
\* without versions is removed
RECURSIVE cleanupAllOldVersions(_, _)
cleanupAllOldVersions(entries, time) ==
    IF entries = <<>> THEN <<>>
    ELSE (IF cleanupOldVersions(Head(entries).lines, time) = <<>> THEN <<>>
          ELSE <<[fileName |-> Head(entries).fileName,
                  lines |-> cleanupOldVersions(Head(entries).lines, time)]>>)
         \o cleanupAllOldVersions(Tail(entries), time)

\* performMaintenance(): the histories of the model stay far below the
\* 100 MB at which the versions are cut to 20 per file
performMaintenance(entries, time) == cleanupAllOldVersions(entries, time)

\* DocumentVersionHistory.clear()
clearHistories(entries) == <<>>

\* recordSnapshot(document) at the given time
recordSnapshot(entries, fileName, version, lines, time) ==
    LET snapshot == [version |-> version, timestamp |-> time,
                     lineCount |-> Len(lines), lines |-> lines]
        k == EntryIndex(entries, fileName)
    IN IF k = 0
       THEN Append(entries, [fileName |-> fileName,
                             lines |-> cleanupOldVersions(TrimVersions(<<snapshot>>), time)])
       ELSE [entries EXCEPT ![k].lines = cleanupOldVersions(TrimVersions(Append(@, snapshot)), time)]

\* A vscode.Position and a vscode.Range (start is never after end).
Position(line, character) == [line |-> line, character |-> character]

Range(start, end) == [start |-> start, end |-> end]

\* getDeletedContent and extractDeletedContent return null.
NoDeletedContent ==
    [content |-> <<>>, startLine |-> -1, endLine |-> -1,
     startCharacter |-> -1, endCharacter |-> -1]

DeletedContent(content, range) ==
    [content |-> content, startLine |-> range.start.line, endLine |-> range.end.line,
     startCharacter |-> range.start.character, endCharacter |-> range.end.character]

\* for (let i = startLine + 1; i < endLine; i++) deletedContent += '\n' + snapshot.lines[i]
\* (lines are numbered from 0)
RECURSIVE InteriorLines(_, _, _)
InteriorLines(lines, i, endLine) ==
    IF i >= endLine THEN <<>>
    ELSE <<10>> \o lines[i + 1] \o InteriorLines(lines, i + 1, endLine)

\* The interior lines appended without their line breaks.
RECURSIVE InteriorLinesUnbroken(_, _, _)
InteriorLinesUnbroken(lines, i, endLine) ==
    IF i >= endLine THEN <<>>
    ELSE lines[i + 1] \o InteriorLinesUnbroken(lines, i + 1, endLine)

\* The branch of extractDeletedContent for a range of several lines.
MultiLineContent(lines, range, interior) ==
    (IF range.start.character < Len(lines[range.start.line + 1])
     THEN Substring(lines[range.start.line + 1], range.start.character)
     ELSE <<>>)
    \o interior
    \o (IF range.end.character <= Len(lines[range.end.line + 1])
        THEN <<10>> \o SubSeq(lines[range.end.line + 1], 1, range.end.character)
        ELSE <<>>)

\* An extraction that joins the interior lines without line breaks.
extractDeletedContentUnbroken(snapshot, range) ==
    IF range.start.line >= Len(snapshot.lines) \/ range.end.line >= Len(snapshot.lines)
    THEN NoDeletedContent
    ELSE IF range.start.line = range.end.line
    THEN (IF \/ range.start.character >= Len(snapshot.lines[range.start.line + 1])
             \/ range.end.character > Len(snapshot.lines[range.start.line + 1])
          THEN NoDeletedContent
          ELSE DeletedContent(SubSeq(snapshot.lines[range.start.line + 1],
                                     range.start.character + 1, range.end.character), range))
    ELSE DeletedContent(MultiLineContent(snapshot.lines, range,
                           InteriorLinesUnbroken(snapshot.lines, range.start.line + 1,
                                                 range.end.line)), range)

\* extractDeletedContent(snapshot, range)
extractDeletedContent(snapshot, range) ==
    IF range.start.line >= Len(snapshot.lines) \/ range.end.line >= Len(snapshot.lines)
    THEN NoDeletedContent
    ELSE IF range.start.line = range.end.line
    THEN (IF \/ range.start.character >= Len(snapshot.lines[range.start.line + 1])
             \/ range.end.character > Len(snapshot.lines[range.start.line + 1])
          THEN NoDeletedContent
          ELSE DeletedContent(SubSeq(snapshot.lines[range.start.line + 1],
                                     range.start.character + 1, range.end.character), range))
    ELSE DeletedContent(MultiLineContent(snapshot.lines, range,
                           InteriorLines(snapshot.lines, range.start.line + 1,
                                         range.end.line)), range)

\* fileHistory.find(s => s.version === beforeVersion): its index, 0 when none
FindVersion(fileHistory, beforeVersion) ==
    IF \E i \in 1..Len(fileHistory) : fileHistory[i].version = beforeVersion
    THEN CHOOSE i \in 1..Len(fileHistory) :
            /\ fileHistory[i].version = beforeVersion
            /\ \A j \in 1..(i - 1) : fileHistory[j].version # beforeVersion
    ELSE 0

\* fileHistory.filter(s => s.version < beforeVersion)
\*            .sort((a, b) => b.version - a.version)[0]: its index, 0 when none
ClosestVersion(fileHistory, beforeVersion) ==
    IF \E i \in 1..Len(fileHistory) : fileHistory[i].version < beforeVersion
    THEN CHOOSE i \in 1..Len(fileHistory) :
            /\ fileHistory[i].version < beforeVersion
            /\ \A j \in 1..Len(fileHistory) :
                  fileHistory[j].version < beforeVersion =>
                     \/ fileHistory[j].version < fileHistory[i].version
                     \/ fileHistory[j].version = fileHistory[i].version /\ i <= j
    ELSE 0

\* getDeletedContent(fileName, range, beforeVersion)
getDeletedContent(entries, fileName, range, beforeVersion) ==
    IF EntryIndex(entries, fileName) = 0 THEN NoDeletedContent
    ELSE IF FindVersion(entries[EntryIndex(entries, fileName)].lines, beforeVersion) # 0
    THEN extractDeletedContent(
            entries[EntryIndex(entries, fileName)].lines[
                FindVersion(entries[EntryIndex(entries, fileName)].lines, beforeVersion)],
            range)
    ELSE IF ClosestVersion(entries[EntryIndex(entries, fileName)].lines, beforeVersion) # 0
    THEN extractDeletedContent(
            entries[EntryIndex(entries, fileName)].lines[
                ClosestVersion(entries[EntryIndex(entries, fileName)].lines, beforeVersion)],
            range)
    ELSE NoDeletedContent

\* ------------------------------------------------------------------------
\* CursorAIWatcher: the intermediate-state solver
\* ------------------------------------------------------------------------

\* A match result; a result that is not found carries no content.
NotFound ==
    [found |-> FALSE, lineNumber |-> 0, content |-> <<>>, operation |-> <<>>,
     type |-> "none", derived |-> FALSE]

\* The white space of /\S/ and of trim(), among the code units below 256.
IsSpace(c) == c \in {9, 10, 11, 12, 13, 32, 160}

\* fullContent.search(/\S/): the 0-based index of the first character that is
\* not white space, -1 when there is none.
FirstNonSpace(str) ==
    IF \E i \in 1..Len(str) : ~IsSpace(str[i])
    THEN (CHOOSE i \in 1..Len(str) :
            /\ ~IsSpace(str[i])
            /\ \A j \in 1..(i - 1) : IsSpace(str[j])) - 1
    ELSE -1

\* fullContent.trim().length
TrimLength(str) ==
    IF FirstNonSpace(str) = -1 THEN 0
    ELSE (CHOOSE i \in 1..Len(str) :
            /\ ~IsSpace(str[i])
            /\ \A j \in (i + 1)..Len(str) : IsSpace(str[j])) - FirstNonSpace(str)

Min(a, b) == IF a <= b THEN a ELSE b

\* str.substring(from, to), both ends clamped to the string
SubstringTo(str, from, to) == SubSeq(str, Min(from, Len(str)) + 1, Min(to, Len(str)))

\* The result of a prefix match.
PrefixResult(prefix) ==
    [found |-> TRUE, lineNumber |-> 0, content |-> prefix, operation |-> OpDel,
     type |-> "intermediate_state", derived |-> TRUE]

\* The prefix loop of generateIntermediateFromNext: the first i in
\* i..maxPrefixes whose prefix hashes to the item's hash with operation '-',
\* maxPrefixes + 1 when there is none.
PrefixHits(suspectedItem, fullContent, startPos, maxPrefixes, i) ==
    {j \in i..maxPrefixes :
        calculateCodeHash(suspectedItem.fileName, OpDel,
                          SubstringTo(fullContent, 0, startPos + j)) = suspectedItem.hash}

FirstOr(hits, none) ==
    IF hits = {} THEN none ELSE CHOOSE j \in hits : \A k \in hits : j <= k

FindPrefix(suspectedItem, fullContent, startPos, maxPrefixes, i) ==
    IF i > maxPrefixes THEN i
    ELSE FirstOr(PrefixHits(suspectedItem, fullContent, startPos, maxPrefixes, i),
                 maxPrefixes + 1)

\* pairedSymbols: the close symbol of an open symbol, 0 for any other character
CloseSymbolOf(c) ==
    IF c = 40 THEN 41 ELSE IF c = 91 THEN 93 ELSE IF c = 123 THEN 125
    ELSE IF c \in {34, 39, 96} THEN c ELSE 0

\* findMatchingCloseSymbol: the scan from 1-based position i with the given
\* stack; the 0-based index of the matching close symbol, -1 when none.
RECURSIVE CloseScan(_, _, _, _, _)
CloseScan(content, i, openSymbol, closeSymbol, stack) ==
    IF i > Len(content) THEN -1
    ELSE IF content[i] = openSymbol
    THEN CloseScan(content, i + 1, openSymbol, closeSymbol, stack + 1)
    ELSE IF content[i] = closeSymbol
    THEN (IF stack = 0 THEN i - 1
          ELSE CloseScan(content, i + 1, openSymbol, closeSymbol, stack - 1))
    ELSE CloseScan(content, i + 1, openSymbol, closeSymbol, stack)

\* findMatchingCloseSymbol(content, startIndex, openSymbol, closeSymbol)
findMatchingCloseSymbol(content, startIndex, openSymbol, closeSymbol) ==
    CloseScan(content, startIndex + 2, openSymbol, closeSymbol, 0)

\* The 0-based indices of the open symbols that have a matching close symbol,
\* in increasing order: allSymbolPairs.
OpenIndices(fullContent) ==
    {i \in 0..(Len(fullContent) - 1) :
        /\ CloseSymbolOf(fullContent[i + 1]) # 0
        /\ findMatchingCloseSymbol(fullContent, i, fullContent[i + 1],
                                   CloseSymbolOf(fullContent[i + 1])) # -1}

CloseIndexOf(fullContent, openIndex) ==
    findMatchingCloseSymbol(fullContent, openIndex, fullContent[openIndex + 1],
                            CloseSymbolOf(fullContent[openIndex + 1]))

\* beforePair + userInput + afterPair
IntermediateContent(fullContent, openIndex, closeIndex, inputLength) ==
    SubstringTo(fullContent, 0, openIndex + 1)
        \o SubstringTo(fullContent, openIndex + 1, openIndex + 1 + inputLength)
        \o Substring(fullContent, closeIndex)

\* The candidates of a pair hit the item's hash for some input length.
PairHits(suspectedItem, fullContent, openIndex, inputLength) ==
    calculateCodeHash(suspectedItem.fileName, OpDel,
                      IntermediateContent(fullContent, openIndex,
                                          CloseIndexOf(fullContent, openIndex), inputLength))
        = suspectedItem.hash

InputLengths(fullContent, openIndex) ==
    0..(CloseIndexOf(fullContent, openIndex) - openIndex - 1)

\* The first pair, and in it the first input length, that hits.
FirstPairHit(suspectedItem, fullContent) ==
    CHOOSE hit \in {<<o, n>> \in OpenIndices(fullContent) \X (0..Len(fullContent)) :
                        /\ n \in InputLengths(fullContent, o)
                        /\ PairHits(suspectedItem, fullContent, o, n)} :
        \A other \in {<<o, n>> \in OpenIndices(fullContent) \X (0..Len(fullContent)) :
                        /\ n \in InputLengths(fullContent, o)
                        /\ PairHits(suspectedItem, fullContent, o, n)} :
            \/ hit[1] < other[1]
            \/ hit[1] = other[1] /\ hit[2] <= other[2]

\* generateIntermediateFromPairedSymbols(suspectedItem, nextMatch)
generateIntermediateFromPairedSymbols(suspectedItem, fullContent) ==
    IF \E o \in OpenIndices(fullContent) : \E n \in InputLengths(fullContent, o) :
            PairHits(suspectedItem, fullContent, o, n)
    THEN [found |-> TRUE, lineNumber |-> 0,
          content |-> IntermediateContent(fullContent,
                          FirstPairHit(suspectedItem, fullContent)[1],
                          CloseIndexOf(fullContent, FirstPairHit(suspectedItem, fullContent)[1]),
                          FirstPairHit(suspectedItem, fullContent)[2]),
          operation |-> OpDel, type |-> "paired_symbol_intermediate", derived |-> TRUE]
    ELSE NotFound

\* A prefix loop that answers with the full content.
PrefixOrPairsWhole(suspectedItem, fullContent, startPos, maxPrefixes, i) ==
    IF i <= maxPrefixes
    THEN PrefixResult(fullContent)
    ELSE generateIntermediateFromPairedSymbols(suspectedItem, fullContent)

\* The outcome of the prefix loop: the prefix found, else the paired symbols.
PrefixOrPairs(suspectedItem, fullContent, startPos, maxPrefixes, i) ==
    IF i <= maxPrefixes
    THEN PrefixResult(SubstringTo(fullContent, 0, startPos + i))
    ELSE generateIntermediateFromPairedSymbols(suspectedItem, fullContent)

PrefixesFrom(suspectedItem, fullContent, startPos, maxPrefixes) ==
    PrefixOrPairs(suspectedItem, fullContent, startPos, maxPrefixes,
                  FindPrefix(suspectedItem, fullContent, startPos, maxPrefixes, 0))

\* A prefix loop that runs to the end of the trimmed content.
generateIntermediateFromNextUnbounded(suspectedItem, nextMatch) ==
    PrefixesFrom(suspectedItem, nextMatch.content,
                 IF FirstNonSpace(nextMatch.content) = -1 THEN 0
                 ELSE FirstNonSpace(nextMatch.content),
                 TrimLength(nextMatch.content))

\* generateIntermediateFromNext(suspectedItem, nextMatch)
generateIntermediateFromNext(suspectedItem, nextMatch) ==
    PrefixesFrom(suspectedItem, nextMatch.content,
                 IF FirstNonSpace(nextMatch.content) = -1 THEN 0
                 ELSE FirstNonSpace(nextMatch.content),
                 Min(100, TrimLength(nextMatch.content)))

\* ------------------------------------------------------------------------
\* CursorAIWatcher: search, matching and retry
\* ------------------------------------------------------------------------

\* The time window keeps the most recent versions of a file: 5 in the
\* program, 2 here.
TIME_WINDOW_VERSIONS == 2

\* lastItemHash = null
NoHash == <<>>

\* An item of Cursor's tracking array.
TrackedItem(hash, fileName, source) ==
    [hash |-> hash, fileName |-> fileName, source |-> source]

\* The result of a line match: it has no type and is derived from nothing.
LineResult(lineNumber, line, op) ==
    [found |-> TRUE, lineNumber |-> lineNumber, content |-> line, operation |-> op,
     type |-> "line", derived |-> FALSE]

\* findHashMatchInLines(codeLines, aiItem), from line i (1-based)
RECURSIVE FindLine(_, _, _)
FindLine(codeLines, aiItem, i) ==
    IF i > Len(codeLines) THEN NotFound
    ELSE IF calculateCodeHash(aiItem.fileName, OpAdd, codeLines[i]) = aiItem.hash
    THEN LineResult(i, codeLines[i], OpAdd)
    ELSE IF calculateCodeHash(aiItem.fileName, OpDel, codeLines[i]) = aiItem.hash
    THEN LineResult(i, codeLines[i], OpDel)
    ELSE FindLine(codeLines, aiItem, i + 1)

findHashMatchInLines(codeLines, aiItem) == FindLine(codeLines, aiItem, 1)

\* analyzeFileForHash(copyPath, aiItem): the version's content is its lines
analyzeFileForHash(version, aiItem) == findHashMatchInLines(version.lines, aiItem)

\* analyzeContentForItem(codeLines, aiItem)
analyzeContentForItem(codeLines, aiItem) == findHashMatchInLines(codeLines, aiItem)

\* findMatchingTimeWindow(aiItemFileName), from entry k of the map: the index
\* of the first window whose key ends with the file name, 0 when none.  Every
\* History directory of the model has an entries.json, so no key is an orphan.
RECURSIVE FindWindow(_, _, _)
FindWindow(timeWindows, aiItemFileName, k) ==
    IF k > Len(timeWindows) THEN 0
    ELSE IF EndsWith(timeWindows[k].key, aiItemFileName) THEN k
    ELSE FindWindow(timeWindows, aiItemFileName, k + 1)

findMatchingTimeWindow(timeWindows, aiItemFileName) ==
    FindWindow(timeWindows, aiItemFileName, 1)

\* The loop of searchInTimeWindow over the versions, newest first.
RECURSIVE SearchVersions(_, _, _)
SearchVersions(timeWindow, aiItem, v) ==
    IF v > Len(timeWindow) THEN NotFound
    ELSE IF analyzeFileForHash(timeWindow[v], aiItem).found
    THEN analyzeFileForHash(timeWindow[v], aiItem)
    ELSE SearchVersions(timeWindow, aiItem, v + 1)

\* searchInOrphanDirectories(aiItem): no window is an orphan
searchInOrphanDirectories(aiItem) == NotFound

\* Map.set(hash, mapping) on the insertion-ordered foundMappings
MappingIndex(foundMappings, hash) ==
    IF \E i \in 1..Len(foundMappings) : foundMappings[i].hash = hash
    THEN CHOOSE i \in 1..Len(foundMappings) : foundMappings[i].hash = hash
    ELSE 0

SetMapping(foundMappings, mapping) ==
    IF MappingIndex(foundMappings, mapping.hash) = 0
    THEN Append(foundMappings, mapping)
    ELSE [foundMappings EXCEPT ![MappingIndex(foundMappings, mapping.hash)] = mapping]

Mapping(aiItem, match) ==
    [hash |-> aiItem.hash, fileName |-> aiItem.fileName, content |-> match.content,
     operation |-> match.operation, lineNumber |-> match.lineNumber]

\* The end of searchInTimeWindow: a match is cached in foundMappings.
SearchOutcome(w, aiItem, match) ==
    [w |-> IF match.found
           THEN [w EXCEPT !.foundMappings = SetMapping(@, Mapping(aiItem, match))]
           ELSE w,
     match |-> match]

\* searchInTimeWindow(aiItem)
searchInTimeWindow(w, aiItem) ==
    SearchOutcome(w, aiItem,
        IF findMatchingTimeWindow(w.timeWindows, aiItem.fileName) = 0
        THEN searchInOrphanDirectories(aiItem)
        ELSE SearchVersions(
                 w.timeWindows[findMatchingTimeWindow(w.timeWindows, aiItem.fileName)].versions,
                 aiItem, 1))

\* isLikelyIntermediatePair(item1, item2)
isLikelyIntermediatePair(item1, item2) ==
    /\ item1.fileName = item2.fileName
    /\ item1.source = "tab"
    /\ item2.source = "tab"

\* The end of detectIntermediate, after the search for the next item.
DetectFromNext(next, suspectedItem) ==
    [w |-> next.w,
     match |-> IF next.match.found
               THEN generateIntermediateFromNext(suspectedItem, next.match)
               ELSE NotFound]

\* detectIntermediate(suspectedItem, nextItem)
detectIntermediate(w, suspectedItem, nextItem) ==
    IF ~isLikelyIntermediatePair(suspectedItem, nextItem)
    THEN [w |-> w, match |-> NotFound]
    ELSE DetectFromNext(searchInTimeWindow(w, nextItem), suspectedItem)

\* findHashIndexInLRU(targetHash): 1-based, 0 when absent
findHashIndexInLRU(aiItemsLRU, targetHash) ==
    IF \E i \in 1..Len(aiItemsLRU) : aiItemsLRU[i].hash = targetHash
    THEN CHOOSE i \in 1..Len(aiItemsLRU) :
            /\ aiItemsLRU[i].hash = targetHash
            /\ \A j \in 1..(i - 1) : aiItemsLRU[j].hash # targetHash
    ELSE 0

\* removeFromUnmatchedQueue(hash)
removeFromUnmatchedQueue(w, hash) ==
    [w EXCEPT !.unmatchedAIItems = SelectSeq(@, LAMBDA item : item.hash # hash)]

\* An inferred result that carries operation '+'.
InferredMatchResultAdded(result) ==
    [found |-> TRUE, lineNumber |-> 0, content |-> result.content,
     operation |-> OpAdd, type |-> "intermediate_state", derived |-> FALSE]

\* inferredMatchResult: the solver's result without its derivation
InferredMatchResult(result) ==
    [found |-> TRUE, lineNumber |-> 0, content |-> result.content,
     operation |-> result.operation, type |-> "intermediate_state", derived |-> FALSE]

\* markAsMatched up to the inference: the hash and its details are stored
markAsMatchedOnly(w, hash, matchResult) ==
    [w EXCEPT !.matchedHashes = @ \cup {hash},
              !.matchedDetails = [h \in DOMAIN @ |-> IF h = hash THEN matchResult ELSE @[h]]]

\* markAsMatched that never infers the preceding item
markAsMatchedNoInference(w, hash, matchResult) == markAsMatchedOnly(w, hash, matchResult)

RECURSIVE markAsMatched(_, _, _)
RECURSIVE immediatelyInferPreceding(_, _, _)
RECURSIVE InferPrecedingAt(_, _, _)
RECURSIVE InferPrecedingWith(_, _, _)

\* markAsMatched(hash, matchResult)
markAsMatched(w, hash, matchResult) ==
    IF matchResult.operation = OpAdd
    THEN immediatelyInferPreceding(markAsMatchedOnly(w, hash, matchResult), hash, matchResult)
    ELSE markAsMatchedOnly(w, hash, matchResult)

\* immediatelyInferPreceding(currentHash, matchResult)
immediatelyInferPreceding(w, currentHash, matchResult) ==
    InferPrecedingAt(w, findHashIndexInLRU(w.aiItemsLRU, currentHash), matchResult)

InferPrecedingAt(w, currentIndex, matchResult) ==
    IF /\ currentIndex > 1
       /\ w.aiItemsLRU[currentIndex - 1].hash \notin w.matchedHashes
       /\ w.aiItemsLRU[currentIndex - 1].fileName = w.aiItemsLRU[currentIndex].fileName
    THEN InferPrecedingWith(w, w.aiItemsLRU[currentIndex - 1],
             generateIntermediateFromNext(w.aiItemsLRU[currentIndex - 1], matchResult))
    ELSE w

InferPrecedingWith(w, precedingItem, result) ==
    IF result.found
    THEN removeFromUnmatchedQueue(
             markAsMatched(w, precedingItem.hash, InferredMatchResult(result)),
             precedingItem.hash)
    ELSE w


\* The unmatched queue takes an item whatever it already holds.
PushUnmatchedAlways(w, currentItem) ==
    [w EXCEPT !.unmatchedAIItems = Append(@, currentItem)]

\* The unmatched queue takes an item unless it holds one with the same hash.
PushUnmatched(w, currentItem) ==
    IF \E i \in 1..Len(w.unmatchedAIItems) : w.unmatchedAIItems[i].hash = currentItem.hash
    THEN w
    ELSE [w EXCEPT !.unmatchedAIItems = Append(@, currentItem)]

\* handleNewAIItems, after detectIntermediate for an item that was not found
AfterDetect(detected, currentItem) ==
    IF detected.match.found
    THEN markAsMatched(detected.w, currentItem.hash, detected.match)
    ELSE PushUnmatched(detected.w, currentItem)

\* handleNewAIItems, after the search for item i
AfterSearch(searched, newAIItems, i) ==
    IF searched.match.found
    THEN markAsMatched(searched.w, newAIItems[i].hash, searched.match)
    ELSE IF i < Len(newAIItems)
    THEN AfterDetect(detectIntermediate(searched.w, newAIItems[i], newAIItems[i + 1]),
                     newAIItems[i])
    ELSE PushUnmatched(searched.w, newAIItems[i])

RECURSIVE HandleFrom(_, _, _)
HandleFrom(w, newAIItems, i) ==
    IF i > Len(newAIItems) THEN w
    ELSE HandleFrom(AfterSearch(searchInTimeWindow(w, newAIItems[i]), newAIItems, i),
                    newAIItems, i + 1)

\* handleNewAIItems(newAIItems)
handleNewAIItems(w, newAIItems) == HandleFrom(w, newAIItems, 1)

\* The items of the unmatched queue that the running event searched again.
Rescanned(w, item) == [w EXCEPT !.scanned = @ \cup {item}]

\* retryRegularUnmatched, after the search for an item of the queue
RetryStep(searched, unmatchedItem) ==
    IF searched.match.found
    THEN markAsMatched(searched.w, unmatchedItem.hash, searched.match)
    ELSE searched.w

\* The loop of retryRegularUnmatched over the queue as it was when the loop
\* began; the queue is replaced by stillUnmatched at the end.
RECURSIVE RetryFrom(_, _, _, _)
RetryFrom(w, unmatched, i, stillUnmatched) ==
    IF i > Len(unmatched) THEN [w EXCEPT !.unmatchedAIItems = stillUnmatched]
    ELSE RetryFrom(RetryStep(searchInTimeWindow(Rescanned(w, unmatched[i]), unmatched[i]),
                             unmatched[i]),
                   unmatched, i + 1,
                   IF searchInTimeWindow(w, unmatched[i]).match.found
                   THEN stillUnmatched
                   ELSE Append(stillUnmatched, unmatched[i]))

\* retryRegularUnmatched()
retryRegularUnmatched(w) ==
    IF Len(w.unmatchedAIItems) = 0 THEN w
    ELSE RetryFrom(w, w.unmatchedAIItems, 1, <<>>)

\* getSameFileMatches(aiItemFileName)
getSameFileMatches(foundMappings, aiItemFileName) ==
    SelectSeq(foundMappings,
              LAMBDA match : \/ match.fileName = aiItemFileName
                             \/ EndsWith(match.fileName, aiItemFileName)
                             \/ EndsWith(aiItemFileName, match.fileName))

\* The '+' matches of the same file from which the solver finds the item.
PendingHits(pendingItem, sameFileMatches) ==
    {m \in 1..Len(sameFileMatches) :
        /\ sameFileMatches[m].operation = OpAdd
        /\ generateIntermediateFromNext(pendingItem, sameFileMatches[m]).found}

SetMin(S) == CHOOSE x \in S : \A y \in S : x <= y

\* retryPendingIntermediates, for one item with the matches of its file
PendingStep(w, pendingItem, sameFileMatches) ==
    markAsMatched(w, pendingItem.hash,
        generateIntermediateFromNext(pendingItem,
            sameFileMatches[SetMin(PendingHits(pendingItem, sameFileMatches))]))

RECURSIVE PendingFrom(_, _, _, _)
PendingFrom(w, pending, i, stillPending) ==
    IF i > Len(pending) THEN [w EXCEPT !.pendingIntermediates = stillPending]
    ELSE IF PendingHits(pending[i],
                        getSameFileMatches(w.foundMappings, pending[i].fileName)) = {}
    THEN PendingFrom(w, pending, i + 1, Append(stillPending, pending[i]))
    ELSE PendingFrom(PendingStep(w, pending[i],
                                 getSameFileMatches(w.foundMappings, pending[i].fileName)),
                     pending, i + 1, stillPending)

\* retryPendingIntermediates()
retryPendingIntermediates(w) ==
    IF Len(w.pendingIntermediates) = 0 THEN w
    ELSE PendingFrom(w, w.pendingIntermediates, 1, <<>>)

\* retryUnmatchedItems()
retryUnmatchedItems(w) ==
    IF Len(w.unmatchedAIItems) + Len(w.pendingIntermediates) = 0 THEN w
    ELSE retryPendingIntermediates(retryRegularUnmatched(w))

\* isFileMatch(aiItemFileName, windowKey), for a key that is not an orphan
isFileMatch(aiItemFileName, windowKey) == EndsWith(windowKey, aiItemFileName)

\* batchAnalyzeFile, after the analysis of one related item
BatchStep(w, item, match) ==
    IF match.found
    THEN removeFromUnmatchedQueue(markAsMatched(w, item.hash, match), item.hash)
    ELSE w

RECURSIVE BatchFrom(_, _, _, _)
BatchFrom(w, codeLines, relatedItems, i) ==
    IF i > Len(relatedItems) THEN w
    ELSE BatchFrom(BatchStep(Rescanned(w, relatedItems[i]), relatedItems[i],
                             analyzeContentForItem(codeLines, relatedItems[i])),
                   codeLines, relatedItems, i + 1)

\* batchAnalyzeFile(filePath, relatedItems)
batchAnalyzeFile(w, codeLines, relatedItems) == BatchFrom(w, codeLines, relatedItems, 1)

\* handleNewFile(filePath): the file's window key is its resource path
handleNewFile(w, fileInfo) ==
    IF Len(SelectSeq(w.unmatchedAIItems,
                     LAMBDA item : isFileMatch(item.fileName, fileInfo.key))) > 0
    THEN batchAnalyzeFile(w, fileInfo.lines,
             SelectSeq(w.unmatchedAIItems,
                       LAMBDA item : isFileMatch(item.fileName, fileInfo.key)))
    ELSE w

\* timeWindows.get(windowKey) || []
WindowIndex(timeWindows, windowKey) ==
    IF \E k \in 1..Len(timeWindows) : timeWindows[k].key = windowKey
    THEN CHOOSE k \in 1..Len(timeWindows) : timeWindows[k].key = windowKey
    ELSE 0

WindowOf(timeWindows, windowKey) ==
    IF WindowIndex(timeWindows, windowKey) = 0 THEN <<>>
    ELSE timeWindows[WindowIndex(timeWindows, windowKey)].versions

\* push and the stable sort by descending mtime of a window that is sorted
SortedPush(currentWindow, fileInfo) ==
    SelectSeq(currentWindow, LAMBDA version : version.mtime >= fileInfo.mtime)
        \o <<fileInfo>>
        \o SelectSeq(currentWindow, LAMBDA version : version.mtime < fileInfo.mtime)

\* currentWindow.splice(TIME_WINDOW_VERSIONS)
CapWindow(currentWindow) ==
    SubSeq(currentWindow, 1, Min(Len(currentWindow), TIME_WINDOW_VERSIONS))

\* timeWindows.set(windowKey, currentWindow)
SetWindow(timeWindows, windowKey, currentWindow) ==
    IF WindowIndex(timeWindows, windowKey) = 0
    THEN Append(timeWindows, [key |-> windowKey, versions |-> currentWindow])
    ELSE [timeWindows EXCEPT ![WindowIndex(timeWindows, windowKey)].versions = currentWindow]

\* updateTimeWindow(filePath)
updateTimeWindow(w, fileInfo) ==
    handleNewFile(
        [w EXCEPT !.timeWindows =
            SetWindow(@, fileInfo.key,
                      CapWindow(SortedPush(WindowOf(@, fileInfo.key), fileInfo)))],
        fileInfo)

\* handleHistoryEvent for a new file, without the fallback retry
handleHistoryEventNoRetry(w, fileInfo) == updateTimeWindow(w, fileInfo)

\* handleHistoryEvent after updateTimeWindow: the fallback retry
FallbackRetry(w) ==
    IF Len(w.unmatchedAIItems) > 0 \/ Len(w.pendingIntermediates) > 0
    THEN retryUnmatchedItems(w)
    ELSE w

\* handleHistoryEvent('rename', filePath) for a file that exists
handleHistoryEvent(w, fileInfo) == FallbackRetry(updateTimeWindow(w, fileInfo))

\* The tracking array keeps 10000 items.
LRU_CAPACITY == 10000

\* updateLRUQueue(currentItems)
updateLRUQueue(currentItems) ==
    IF Len(currentItems) > LRU_CAPACITY
    THEN SubSeq(currentItems, Len(currentItems) - LRU_CAPACITY + 1, Len(currentItems))
    ELSE currentItems

\* checkForNewItems: the items that are new
NewItemsOf(w, currentItems) ==
    IF w.lastItemHash = NoHash THEN currentItems
    ELSE IF (IF Len(currentItems) > 0 THEN currentItems[Len(currentItems)].hash ELSE NoHash)
            = w.lastItemHash
    THEN <<>>
    ELSE IF findHashIndexInLRU(currentItems, w.lastItemHash) = 0
    THEN SelectSeq(currentItems,
                   LAMBDA item : \A j \in 1..Len(w.lastKnownItems) :
                                    w.lastKnownItems[j].hash # item.hash)
    ELSE SubSeq(currentItems, findHashIndexInLRU(currentItems, w.lastItemHash) + 1,
                Len(currentItems))

\* checkForNewItems: the known state is replaced by the current items
Known(w, currentItems) ==
    [w EXCEPT !.lastKnownItems = currentItems,
              !.lastItemHash = IF Len(currentItems) > 0
                               THEN currentItems[Len(currentItems)].hash ELSE @,
              !.aiItemsLRU = updateLRUQueue(currentItems)]

\* checkForNewItems() when the database holds currentItems
checkForNewItems(w, currentItems) ==
    IF Len(NewItemsOf(w, currentItems)) > 0
    THEN handleNewAIItems(Known(w, currentItems), NewItemsOf(w, currentItems))
    ELSE Known(w, currentItems)

\* ------------------------------------------------------------------------
\* SmartEventDebouncer
\*
\* A debouncer d is a record of the fields timer (the time the pending
\* timeout is due, NoTimer for null), pendingEvents, callback (whether one
\* is registered) and firstTriggerTime (NoTime for null), of Date.now() as
\* clock, and of what is observed of it: the number of trigger calls, the
\* current run of triggers (calls each less than delay after the one
\* before: its first and last time, its sources, the invocations since its
\* first call), and the time and the sources of the last invocation.
\* ------------------------------------------------------------------------

\* constructor(delay = 300, maxDelay = 2000), scaled: the quiet period and
\* the maximum wait
delay == 2
maxDelay == 4

NoTimer == 0
NoTime == 0

EventSources == {"main_db", "wal"}

\* execute()
executeAlways(d) ==
    [d EXCEPT !.pendingEvents = {}, !.firstTriggerTime = NoTime, !.timer = NoTimer,
              !.lastSources = d.pendingEvents, !.lastAt = d.clock,
              !.runInvocations = @ + 1]

execute(d) ==
    IF d.callback /\ d.pendingEvents # {} THEN executeAlways(d) ELSE d

\* trigger: pendingEvents.add(eventSource); firstTriggerTime is set when
\* it is null (or 0)
AddEvent(d, eventSource) ==
    [d EXCEPT !.pendingEvents = @ \cup {eventSource},
              !.firstTriggerTime = IF @ = NoTime THEN d.clock ELSE @]

\* trigger without clearTimeout: the timer that is pending stays
TriggerAddedKeepTimer(d) ==
    IF d.clock - d.firstTriggerTime >= maxDelay
    THEN execute(d)
    ELSE [d EXCEPT !.timer = IF @ = NoTimer THEN d.clock + delay ELSE @]

\* trigger without the maximum wait
TriggerAddedNoCeiling(d) == [d EXCEPT !.timer = d.clock + delay]

\* trigger: the rest, once the event is added
TriggerAdded(d) ==
    IF d.clock - d.firstTriggerTime >= maxDelay
    THEN execute(d)
    ELSE [d EXCEPT !.timer = d.clock + delay]

\* The call is noted: it continues the run when it comes less than delay
\* after the call before it, and begins a run otherwise.
NoteTrigger(d, eventSource) ==
    IF d.runLast # NoTime /\ d.clock - d.runLast < delay
    THEN [d EXCEPT !.runLast = d.clock, !.runSources = @ \cup {eventSource},
                   !.triggers = @ + 1]
    ELSE [d EXCEPT !.runFirst = d.clock, !.runLast = d.clock,
                   !.runSources = {eventSource}, !.runInvocations = 0,
                   !.triggers = @ + 1]

\* trigger(eventSource)
trigger(d, eventSource) == TriggerAdded(AddEvent(NoteTrigger(d, eventSource), eventSource))

\* setCallback(callback)
setCallback(d) == [d EXCEPT !.callback = TRUE]

\* clear()
clear(d) ==
    [d EXCEPT !.timer = NoTimer, !.pendingEvents = {}, !.firstTriggerTime = NoTime,
              !.runFirst = NoTime, !.runLast = NoTime, !.runSources = {},
              !.runInvocations = 0]

\* A timeout is pending and its time has come.
TimerDue(d) == d.timer # NoTimer /\ d.clock >= d.timer

\* ------------------------------------------------------------------------
\* AICodeAnalyzer: the check for new tracking items
\* ------------------------------------------------------------------------

\* currentItems.findIndex(item => item.hash === hash), counted from 1; 0 for -1
FindIndexFrom(currentItems, hash, i) ==
    IF \E j \in i..Len(currentItems) : currentItems[j].hash = hash
    THEN CHOOSE j \in i..Len(currentItems) :
            /\ currentItems[j].hash = hash
            /\ \A k \in i..(j - 1) : currentItems[k].hash # hash
    ELSE 0

\* currentItems[currentItems.length - 1].hash, null when there is no item
CurrentLastHash(currentItems) ==
    IF Len(currentItems) > 0 THEN currentItems[Len(currentItems)].hash ELSE NoHash

\* AICodeAnalyzer.checkForNewItems: newItems
AnalyzerNewItems(a, currentItems) ==
    IF a.lastItemHash = NoHash THEN currentItems
    ELSE IF CurrentLastHash(currentItems) = a.lastItemHash THEN <<>>
    ELSE IF FindIndexFrom(currentItems, a.lastItemHash, 1) = 0
    THEN SelectSeq(currentItems,
                   LAMBDA item : \A j \in 1..Len(a.lastKnownItems) :
                                    a.lastKnownItems[j].hash # item.hash)
    ELSE SubSeq(currentItems, FindIndexFrom(currentItems, a.lastItemHash, 1) + 1,
                Len(currentItems))

\* AICodeAnalyzer.checkForNewItems: the known state is replaced
AnalyzerKnown(a, currentItems) ==
    [a EXCEPT !.lastKnownItems = currentItems,
              !.lastItemHash = IF Len(currentItems) > 0
                               THEN CurrentLastHash(currentItems) ELSE @]

\* The items of newItems are handed to the engine: each one's count of
\* deliveries advances.
Delivered(a, newItems) ==
    [a EXCEPT !.delivered =
        [id \in DOMAIN @ |->
            @[id] + Cardinality({k \in 1..Len(newItems) : newItems[k].id = id})]]

\* ------------------------------------------------------------------------
\* The extension's session: edits are recorded, batches of new tracking
\* items are processed, snapshots are taken, time passes.
\* ------------------------------------------------------------------------

MaxRecords == 4     \* recordLineContent calls in a session
MaxBatch == 2       \* items in one batch of new items
MaxTime == 1        \* clock ticks in a session
MaxVersion == 3     \* document versions in a session
MaxFeed == 3        \* items appended to Cursor's tracking array
MaxClock == 3       \* clock ticks in a session with maintenance
MaxFiles == 3       \* files created in Cursor's History directory

VARIABLES recordCount    \* recordLineContent calls so far

VARIABLES
    watcher,         \* the fields of the CursorAIWatcher
    feed,            \* aiCodeTrackingLines in Cursor's database
    historyFiles     \* files created in the History directory so far

VARIABLES
    monitor,         \* the fields of the DocumentMonitor
    debouncer,       \* the SmartEventDebouncer and its clock
    codeAnalyzer     \* the fields of the AICodeAnalyzer that its checks read

Edit(fileName, operation, content, lineNumber) ==
    [fileName |-> fileName, operation |-> operation, content |-> content,
     lineNumber |-> lineNumber]

\* The edits the document monitor captures in the session.
Edits ==
    {Edit(FileA, OpAdd, TextX, 1), Edit(FileA, OpDel, TextX, 2),
     Edit(FileB, OpAdd, TextX, 1), Edit(FileA, OpAdd, TextX, 3)}

Item(hash, fileName) == [hash |-> hash, fileName |-> fileName]

\* The tracking items of the session: each edit's hash under the edit's own
\* file name, the hash of a:+x also under the absolute spelling of a, the
\* hash made from the absolute spelling, and an item without a file name.
Items ==
    {Item(calculateCodeHash(e.fileName, e.operation, e.content), e.fileName) : e \in Edits}
    \cup {Item(calculateCodeHash(FileA, OpAdd, TextX), AbsA),
          Item(calculateCodeHash(AbsA, OpAdd, TextX), AbsA),
          Item(calculateCodeHash(FileB, OpAdd, TextX), NoName)}

ItemHashes == {item.hash : item \in Items}

Batches == UNION {[1..n -> Items] : n \in 1..MaxBatch}

\* The documents snapshotted in the session.
Documents == {<<TextX>>, <<TextX, TextY>>}

NewRecord(edit, time) ==
    [lineNumber |-> edit.lineNumber, content |-> edit.content,
     operation |-> edit.operation, timestamp |-> time, fileName |-> edit.fileName,
     used |-> FALSE, consumers |-> 0]

\* The items Cursor appends to its tracking array: the full line (x) of a,
\* its prefix ( and its auto-closed pair (), both typed before the line was
\* complete, the deletion of the line by the composer, a deletion of a that
\* no version holds and no inference reaches, and the line x of b.
TrackedItems ==
    {TrackedItem(calculateCodeHash(FileA, OpAdd, TextFull), FileA, "tab"),
     TrackedItem(calculateCodeHash(FileA, OpDel, TextOpen), FileA, "tab"),
     TrackedItem(calculateCodeHash(FileA, OpDel, TextPair), FileA, "tab"),
     TrackedItem(calculateCodeHash(FileA, OpDel, TextFull), FileA, "composer"),
     TrackedItem(calculateCodeHash(FileA, OpDel, TextX), FileA, "tab"),
     TrackedItem(calculateCodeHash(FileB, OpAdd, TextX), FileB, "tab")}

TrackedHashes == {item.hash : item \in TrackedItems}

\* The versions Cursor saves in its History directory, each under the
\* resource path of its directory's entries.json.
HistoryVersions ==
    {[key |-> AbsA, lines |-> <<TextY>>], [key |-> AbsA, lines |-> <<TextY, TextFull>>],
     [key |-> AbsB, lines |-> <<TextX>>]}

NoFile == <<>>

MaxLen == 5         \* code units of a string given to murmurhash3

\* The code units of the strings given to murmurhash3: a, : and U+0161,
\* whose low byte is that of a.
HashUnits == {97, 58, 353}

\* The seeds: 0 and 0x9747b28c
HashSeeds == {Word(0), <<38727, 45708>>}

\* The calls of calculateCodeHash.
HashCalls ==
    {[fileName |-> f, operation |-> op, content |-> c] :
        f \in Files, op \in Operations, c \in {TextX, TextEmpty, TextFull}}

NoCall == <<>>

\* `${fileName}:${operation}${content}`
HashInput(call) == call.fileName \o Colon \o call.operation \o call.content

\* A hash whose h1 starts from the seed of the call before.
HashOfCallSeeded(call) == murmurhash3(HashInput(call), hasher.seed)

\* HashUtils.calculateCodeHash(fileName, operation, content)
HashOfCall(call) == calculateCodeHash(call.fileName, call.operation, call.content)

\* HashUtils has static methods only: nothing is called yet.
InitialHasher ==
    [str |-> <<>>, seed |-> Word(0), hash |-> <<>>, first |-> NoCall, firstHash |-> <<>>]

VARIABLES solver    \* the last run of the intermediate-state solver

\* The hashes Cursor may have recorded for a partial state of the content: of
\* every prefix and every rebuilt text, and of a text that is none of them.
SolverTargets(content) ==
    {calculateCodeHash(FileA, OpDel, c) :
        c \in PrefixesOf(content) \cup RebuildsOf(content) \cup {TextPair}}

\* No item is under suspicion yet.
InitialSolver ==
    [suspectedItem |-> [fileName |-> FileA, hash |-> NoHash], fullContent |-> <<>>,
     strategy |-> "none", result |-> NotFound]

MaxItems == 4       \* items Cursor appends in the analyzer's session
MaxInFlight == 2    \* checks waiting for the database at one time

\* The analyzer after initialize() found an empty tracking array: no known
\* item, no check waiting, no item handed to the engine, no item appended.
InitialAnalyzer ==
    [lastKnownItems |-> <<>>, lastItemHash |-> NoHash, inFlight |-> 0,
     delivered |-> [id \in 1..MaxItems |-> 0], appended |-> 0]

MaxTriggers == 6        \* trigger calls in the debouncer's session
MaxDebounceClock == 9   \* milliseconds (scaled) the debouncer's session lasts

\* The debouncer after its constructor, at time 1: no timer, no pending
\* event, no callback, no first trigger; nothing triggered, nothing invoked.
InitialDebouncer ==
    [timer |-> NoTimer, pendingEvents |-> {}, callback |-> FALSE,
     firstTriggerTime |-> NoTime, clock |-> 1, triggers |-> 0,
     runFirst |-> NoTime, runLast |-> NoTime, runSources |-> {},
     runInvocations |-> 0, lastSources |-> {}, lastAt |-> NoTime]

\* ------------------------------------------------------------------------
\* DocumentMonitor: documents, snapshots and the capture of full lines
\* ------------------------------------------------------------------------

MaxEvents == 2      \* change events of the documents' session

LF == <<10>>
CRLF == <<13, 10>>
LineA == <<97>>
LineB == <<98>>
LineC == <<99>>
TextYZ == <<121, 10, 122>>

\* The lines of a text joined by the document's end-of-line sequence.
RECURSIVE JoinLines(_, _)
JoinLines(lines, eol) ==
    IF Len(lines) = 0 THEN <<>>
    ELSE IF Len(lines) = 1 THEN lines[1]
    ELSE lines[1] \o eol \o JoinLines(Tail(lines), eol)

\* document.getText(): the lines with the document's end-of-line sequence
getText(document) == JoinLines(document.lines, document.eol)

\* str.split(separator) for a separator of one code unit
RECURSIVE Split(_, _)
Split(str, separator) ==
    IF \E i \in 1..Len(str) : str[i] = separator
    THEN <<SubSeq(str, 1, (CHOOSE i \in 1..Len(str) :
                              /\ str[i] = separator
                              /\ \A j \in 1..(i - 1) : str[j] # separator) - 1)>>
            \o Split(SubSeq(str, (CHOOSE i \in 1..Len(str) :
                                    /\ str[i] = separator
                                    /\ \A j \in 1..(i - 1) : str[j] # separator) + 1, Len(str)),
                     separator)
    ELSE <<str>>

\* The files with a document, the first with "\n" and the second with "\r\n"
\* as its end of line; each document holds the lines a, b, c at version 1.
DocFiles == {FileA, FileB}
InitialDocuments ==
    [f \in DocFiles |->
        [version |-> 1, eol |-> IF f = FileA THEN LF ELSE CRLF,
         lines |-> <<LineA, LineB, LineC>>]]

\* documentSnapshots.get(fileName) of a file without a snapshot
NoSnapshot == [version |-> -1, timestamp |-> 0, lineContents |-> <<>>]

\* No change event yet.
NoEvent == [fileName |-> NoFile, contentChanges |-> <<>>, snapshot |-> NoSnapshot, records |-> <<>>]

\* The DocumentMonitor after start(): monitoring, no snapshot taken.
InitialMonitor ==
    [isActive |-> TRUE, documents |-> InitialDocuments,
     documentSnapshots |-> [f \in DocFiles |-> NoSnapshot],
     lastEvent |-> NoEvent, events |-> 0]

\* A TextDocumentContentChangeEvent: range, rangeLength and text.
Change(startLine, startCharacter, endLine, endCharacter, rangeLength, text) ==
    [range |-> [start |-> [line |-> startLine, character |-> startCharacter],
                end |-> [line |-> endLine, character |-> endCharacter]],
     rangeLength |-> rangeLength, text |-> text]

\* The characters between two positions of a document, ends of line counted.
RECURSIVE RangeLength(_, _, _, _, _, _)
RangeLength(lines, eol, startLine, startCharacter, endLine, endCharacter) ==
    IF startLine = endLine THEN endCharacter - startCharacter
    ELSE Len(lines[startLine + 1]) - startCharacter + Len(eol)
            + RangeLength(lines, eol, startLine + 1, 0, endLine, endCharacter)

\* The texts a change puts in: nothing, y, and y and z on two lines.
ChangeTexts == {<<>>, TextY, TextYZ}

\* The changes the editor reports on a document: from the start of a line to
\* the start or the end of the same or a later line.
ChangesOf(document) ==
    {Change(s, 0, e, ec, RangeLength(document.lines, document.eol, s, 0, e, ec), text) :
        <<s, e, ec, text>> \in
            {t \in (0..(Len(document.lines) - 1)) \X (0..(Len(document.lines) - 1))
                    \X (0..1) \X ChangeTexts :
                /\ t[1] <= t[2]
                /\ t[3] \in {0, Len(document.lines[t[2] + 1])}
                /\ RangeLength(document.lines, document.eol, t[1], 0, t[2], t[3]) > 0
                      \/ t[4] # <<>>}}

\* event.contentChanges: one change, or the same edit made by two cursors on
\* two lines, the later line first.
ContentChangesOf(document) ==
    {<<change>> : change \in ChangesOf(document)}
        \cup {<<first, second>> : <<first, second>> \in
                {pair \in ChangesOf(document) \X ChangesOf(document) :
                    /\ pair[1].range.start.line = pair[1].range.end.line
                    /\ pair[2].range.start.line = pair[2].range.end.line
                    /\ pair[2].range.end.line < pair[1].range.start.line
                    /\ pair[1].text = pair[2].text
                    /\ (pair[1].rangeLength = 0) = (pair[2].rangeLength = 0)}}

\* The lines put in place of the range: the text's lines between what the
\* first line keeps before the range and the last line keeps after it.
ReplacedLines(head, inserted, tail) ==
    IF Len(inserted) = 1 THEN <<head \o inserted[1] \o tail>>
    ELSE <<head \o inserted[1]>> \o SubSeq(inserted, 2, Len(inserted) - 1)
            \o <<inserted[Len(inserted)] \o tail>>

\* The document's lines after the editor applied a change.
ApplyChange(lines, change) ==
    SubSeq(lines, 1, change.range.start.line)
        \o ReplacedLines(SubSeq(lines[change.range.start.line + 1], 1,
                                change.range.start.character),
                         Split(change.text, 10),
                         Substring(lines[change.range.end.line + 1],
                                   change.range.end.character))
        \o SubSeq(lines, change.range.end.line + 2, Len(lines))

RECURSIVE ApplyChanges(_, _)
ApplyChanges(lines, contentChanges) ==
    IF contentChanges = <<>> THEN lines
    ELSE ApplyChanges(ApplyChange(lines, Head(contentChanges)), Tail(contentChanges))

\* event.document: the document after the changes, its version one higher.
ChangedDocument(document, contentChanges) ==
    [document EXCEPT !.version = @ + 1, !.lines = ApplyChanges(@, contentChanges)]

\* A LineContent of line-capture: { lineNumber, content, operation, timestamp, fileName }
LineContentOf(lineNumber, content, operation, timestamp, fileName) ==
    NewRecord(Edit(fileName, operation, content, lineNumber), timestamp)

\* The loop of buildDeleteRecords: the snapshot's lines from..to that exist.
SnapshotLines(snapshot, from, to, timestamp, fileName) ==
    [k \in 1..(IF Min(to, Len(snapshot.lineContents) - 1) < from THEN 0
               ELSE Min(to, Len(snapshot.lineContents) - 1) - from + 1) |->
        LineContentOf(from + k - 1, snapshot.lineContents[from + k], OpDel,
                      timestamp, fileName)]

\* A loop that stops before the last line of the range.
buildDeleteRecordsExclusive(snapshot, startLine, endLine, timestamp, fileName) ==
    IF snapshot = NoSnapshot THEN <<>>
    ELSE SnapshotLines(snapshot, startLine, endLine - 1, timestamp, fileName)

\* buildDeleteRecords(snapshot, startLine, endLine, timestamp, fileName)
buildDeleteRecords(snapshot, startLine, endLine, timestamp, fileName) ==
    IF snapshot = NoSnapshot THEN <<>>
    ELSE SnapshotLines(snapshot, startLine, endLine, timestamp, fileName)

\* The '+' records of the lines from..from + count - 1 that the document has.
DocumentLines(document, from, count, timestamp, fileName) ==
    [k \in 1..(IF Min(from + count, Len(document.lines)) < from THEN 0
               ELSE Min(from + count, Len(document.lines)) - from) |->
        LineContentOf(from + k - 1, document.lines[from + k], OpAdd, timestamp, fileName)]

\* buildInsertRecords(document, change, snapshot, timestamp, fileName)
buildInsertRecords(document, change, snapshot, timestamp, fileName) ==
    (IF snapshot # NoSnapshot /\ change.range.start.line < Len(snapshot.lineContents)
     THEN <<LineContentOf(change.range.start.line,
                          snapshot.lineContents[change.range.start.line + 1],
                          OpDel, timestamp, fileName)>>
     ELSE <<>>)
        \o (IF Len(Split(change.text, 10)) > 1
            THEN DocumentLines(document, change.range.start.line,
                               Len(Split(change.text, 10)), timestamp, fileName)
            ELSE DocumentLines(document, change.range.start.line, 1, timestamp, fileName))

\* buildReplaceRecords(document, change, snapshot, timestamp, fileName)
buildReplaceRecords(document, change, snapshot, timestamp, fileName) ==
    (IF snapshot # NoSnapshot
     THEN SnapshotLines(snapshot, change.range.start.line, change.range.end.line,
                        timestamp, fileName)
     ELSE <<>>)
        \o DocumentLines(document, change.range.start.line, Len(Split(change.text, 10)),
                         timestamp, fileName)

isDelete(change) == change.rangeLength > 0 /\ change.text = <<>>
isInsert(change) == change.rangeLength = 0 /\ Len(change.text) > 0
isReplace(change) == change.rangeLength > 0 /\ Len(change.text) > 0

\* captureFullLineContents(document, change, fileName, timestamp): the
\* records handed to hashInference.recordLineContent, in order.
captureFullLineContents(documentSnapshots, document, change, fileName, timestamp) ==
    IF isDelete(change)
    THEN buildDeleteRecords(documentSnapshots[fileName], change.range.start.line,
                            change.range.end.line, timestamp, fileName)
    ELSE IF isInsert(change)
    THEN buildInsertRecords(document, change, documentSnapshots[fileName], timestamp, fileName)
    ELSE IF isReplace(change)
    THEN buildReplaceRecords(document, change, documentSnapshots[fileName], timestamp, fileName)
    ELSE <<>>

\* captureDocumentSnapshot(document, trigger)
captureDocumentSnapshot(documentSnapshots, fileName, document, timestamp) ==
    [documentSnapshots EXCEPT
        ![fileName] = [version |-> document.version, timestamp |-> timestamp,
                       lineContents |-> Split(getText(document), 10)]]

\* ensureSnapshotExists(document, trigger)
ensureSnapshotExists(documentSnapshots, fileName, document, timestamp) ==
    IF documentSnapshots[fileName] = NoSnapshot
          \/ documentSnapshots[fileName].version < document.version
    THEN captureDocumentSnapshot(documentSnapshots, fileName, document, timestamp)
    ELSE documentSnapshots

\* The loop of handleTextDocumentChangeWithPreSnapshot: handleSingleTextChange
\* on each change, the records of all of them in order.
RECURSIVE CapturedRecords(_, _, _, _, _)
CapturedRecords(documentSnapshots, document, contentChanges, fileName, timestamp) ==
    IF contentChanges = <<>> THEN <<>>
    ELSE captureFullLineContents(documentSnapshots, document, Head(contentChanges),
                                 fileName, timestamp)
            \o CapturedRecords(documentSnapshots, document, Tail(contentChanges),
                               fileName, timestamp)

\* recs.forEach(r => this.hashInference.recordLineContent(r))
RECURSIVE RecordAll(_, _)
RecordAll(entries, records) ==
    IF records = <<>> THEN entries
    ELSE RecordAll(recordLineContent(entries, Head(records)), Tail(records))

\* handleTextDocumentChangeWithPreSnapshot(event): the records of the changes
\* against the snapshot held, then the snapshot of the document as it is now.
handleTextDocumentChangeWithPreSnapshot(documentSnapshots, fileName, document, contentChanges, timestamp) ==
    [records |-> CapturedRecords(documentSnapshots, document, contentChanges,
                                 fileName, timestamp),
     documentSnapshots |-> captureDocumentSnapshot(documentSnapshots, fileName,
                                                   document, timestamp)]

\* ------------------------------------------------------------------------
\* AICodeStorage and GitCommitAnalyzer
\* ------------------------------------------------------------------------

\* The source's window is 7 days.  One tick of the clock of the commit
\* analysis is 3.5 days, so MAX_TIME_WINDOW is 2.
MAX_TIME_WINDOW == 2

\* str.trimEnd()
TrimEnd(str) ==
    IF FirstNonSpace(str) = -1 THEN <<>>
    ELSE SubSeq(str, 1, FirstNonSpace(str) + TrimLength(str))

\* str.trim()
Trim(str) ==
    IF FirstNonSpace(str) = -1 THEN <<>>
    ELSE SubSeq(str, FirstNonSpace(str) + 1, FirstNonSpace(str) + TrimLength(str))

\* ai-stats.json does not exist.
NoStatsFile == -1

\* The index of the entry of absolutePath in fileStats, 0 when none.
PathIndex(fileStats, absolutePath) ==
    IF \E k \in 1..Len(fileStats) : fileStats[k].absolutePath = absolutePath
    THEN CHOOSE k \in 1..Len(fileStats) : fileStats[k].absolutePath = absolutePath
    ELSE 0

\* if (!this.fileStats.has(absolutePath)) this.fileStats.set(absolutePath, {...})
WithFileStats(fileStats, absolutePath) ==
    IF PathIndex(fileStats, absolutePath) = 0
    THEN Append(fileStats, [absolutePath |-> absolutePath, codeLines |-> <<>>])
    ELSE fileStats

\* fileStats.codeLines.some(line => line.hash === codeLine.hash)
HasCodeLine(codeLines, hash) == \E i \in 1..Len(codeLines) : codeLines[i].hash = hash

\* AICodeStorage.storeAICodeLine(absolutePath, relativePath, codeLine) at the
\* given time: the entry of the file is created, a line whose hash the file
\* already has is skipped, and saveData() writes ai-stats.json.
storeAICodeLine(storage, absolutePath, codeLine, time) ==
    IF HasCodeLine(WithFileStats(storage.fileStats, absolutePath)[
                       PathIndex(WithFileStats(storage.fileStats, absolutePath),
                                 absolutePath)].codeLines,
                   codeLine.hash)
    THEN [storage EXCEPT !.fileStats = WithFileStats(storage.fileStats, absolutePath),
                         !.stored = @ + 1]
    ELSE [fileStats |->
             [WithFileStats(storage.fileStats, absolutePath) EXCEPT
                 ![PathIndex(WithFileStats(storage.fileStats, absolutePath),
                             absolutePath)].codeLines = Append(@, codeLine)],
          statsFile |-> time,
          stored |-> storage.stored + 1]

\* isPathMatch(diffPath, storedPath)
isPathMatch(diffPath, storedPath) ==
    Includes(storedPath, BaseName(diffPath)) \/ EndsWith(storedPath, diffPath)

\* isContentMatch(diffContent, aiContent)
isContentMatch(diffContent, aiContent) == Trim(diffContent) = Trim(aiContent)

\* The condition under which matchLineToAI returns a stored line.
IsAIMatch(codeLine, normalizedContent, operation, commitTimestamp) ==
    /\ isContentMatch(normalizedContent, codeLine.content)
    /\ codeLine.operation = operation
    /\ codeLine.timestamp <= commitTimestamp
    /\ commitTimestamp - codeLine.timestamp < MAX_TIME_WINDOW

\* The places <<k, i>> of the stored lines that matchLineToAI accepts.
AIMatches(fileStats, normalizedContent, operation, filename, commitTimestamp) ==
    {ki \in UNION {{<<k, i>> : i \in 1..Len(fileStats[k].codeLines)} : k \in 1..Len(fileStats)} :
        /\ isPathMatch(filename, fileStats[ki[1]].absolutePath)
        /\ IsAIMatch(fileStats[ki[1]].codeLines[ki[2]], normalizedContent, operation,
                     commitTimestamp)}

\* The first place of a set of places, in the order of the two loops.
FirstPlace(places) ==
    CHOOSE ki \in places :
        \A other \in places :
            ki[1] < other[1] \/ (ki[1] = other[1] /\ ki[2] <= other[2])

\* matchLineToAI returns { matched: false }.
NoAIMatch == [matched |-> FALSE, aiItemHash |-> NoHash]

\* matchLineToAI(content, operation, filename, commitTimestamp)
matchLineToAI(fileStats, content, operation, filename, commitTimestamp) ==
    IF AIMatches(fileStats, TrimEnd(content), operation, filename, commitTimestamp) = {}
    THEN NoAIMatch
    ELSE [matched |-> TRUE,
          aiItemHash |->
             fileStats[FirstPlace(AIMatches(fileStats, TrimEnd(content), operation,
                                            filename, commitTimestamp))[1]]
               .codeLines[FirstPlace(AIMatches(fileStats, TrimEnd(content), operation,
                                               filename, commitTimestamp))[2]].hash]

\* One DiffLine of parseDiffLines.
DiffLine(content, aiMatch) ==
    [content |-> content, isAIGenerated |-> aiMatch.matched, aiItemHash |-> aiMatch.aiItemHash]

\* parseDiffLines(fileDiff, filename, commitTimestamp) on the lines of the
\* diff that start with the given prefix ('+' or '-'), the prefix cut off.
RECURSIVE parseDiffLines(_, _, _, _, _)
parseDiffLines(fileStats, lines, operation, filename, commitTimestamp) ==
    IF lines = <<>> THEN <<>>
    ELSE (IF Head(lines).operation = operation
          THEN <<DiffLine(Head(lines).content,
                          matchLineToAI(fileStats, Head(lines).content, operation,
                                        filename, commitTimestamp))>>
          ELSE <<>>)
         \o parseDiffLines(fileStats, Tail(lines), operation, filename, commitTimestamp)

\* lines.filter(line => line.isAIGenerated).length
AICount(lines) == Len(SelectSeq(lines, LAMBDA line : line.isAIGenerated))

\* analyzeFileChange for the file of the commit
analyzeFileChange(fileStats, commit) ==
    [filename |-> commit.filename,
     aiAdditions |-> AICount(parseDiffLines(fileStats, commit.lines, OpAdd,
                                            commit.filename, commit.timestamp)),
     aiDeletions |-> AICount(parseDiffLines(fileStats, commit.lines, OpDel,
                                            commit.filename, commit.timestamp)),
     addedLines |-> parseDiffLines(fileStats, commit.lines, OpAdd, commit.filename,
                                   commit.timestamp),
     deletedLines |-> parseDiffLines(fileStats, commit.lines, OpDel, commit.filename,
                                     commit.timestamp)]

\* The CommitInfo that analyzeCommit builds when it does not use the cache.
CommitAnalysis(fileStats, commit) ==
    [hash |-> commit.hash, timestamp |-> commit.timestamp,
     files |-> <<analyzeFileChange(fileStats, commit)>>]

\* No analysis: the initial value of the last result.
NoAnalysis == [hash |-> NoHash, timestamp |-> 0, files |-> <<>>]

\* this.cache[commitHash] is undefined.
NoCached ==
    [hash |-> NoHash, analyzedAt |-> 0, aiStorageVersion |-> -1,
     analysis |-> NoAnalysis, isStale |-> TRUE]

\* getAIStorageVersion(): the modification time of ai-stats.json, or
\* Date.now() when the file does not exist (as decimal strings, which are
\* equal exactly when the numbers are).
getAIStorageVersion(storage, time) ==
    IF storage.statsFile # NoStatsFile THEN storage.statsFile ELSE time

\* A validity test that does not look at the version of the storage.
isCacheValidAnyVersion(cache, storage, commitHash, time) ==
    cache[commitHash] # NoCached /\ ~cache[commitHash].isStale

\* isCacheValid(commitHash)
isCacheValid(cache, storage, commitHash, time) ==
    /\ cache[commitHash] # NoCached
    /\ cache[commitHash].aiStorageVersion = getAIStorageVersion(storage, time)
    /\ ~cache[commitHash].isStale

\* cacheAnalysis(commitHash, analysis)
cacheAnalysis(cache, storage, commitHash, analysis, time) ==
    [cache EXCEPT ![commitHash] =
        [hash |-> commitHash, analyzedAt |-> time,
         aiStorageVersion |-> getAIStorageVersion(storage, time),
         analysis |-> analysis, isStale |-> FALSE]]

\* analyzeCommit(workspaceRoot, hash) for a commit that git shows: the cache
\* after the call, the analysis returned and where it came from.
analyzeCommit(cache, storage, commit, time) ==
    IF isCacheValid(cache, storage, commit.hash, time)
    THEN [cache |-> cache, analysis |-> cache[commit.hash].analysis, served |-> "cache"]
    ELSE [cache |-> cacheAnalysis(cache, storage, commit.hash,
                                  CommitAnalysis(storage.fileStats, commit), time),
          analysis |-> CommitAnalysis(storage.fileStats, commit),
          served |-> "computed"]

\* The paths of the commit analysis: "d/a" in the diff; "/w/d/a", "/w/e/a"
\* and "/w/d/b" in the storage.
DiffPath == <<100, 47, 97>>
AbsDA == <<47, 119, 47, 100, 47, 97>>
AbsEA == <<47, 119, 47, 101, 47, 97>>
AbsDB == <<47, 119, 47, 100, 47, 98>>

\* The commits of the repository: c1 at time 2 adds the line "x " to d/a, c2
\* at time 3 adds " x" to it.
CommitC1 ==
    [hash |-> <<99, 49>>, timestamp |-> 2, filename |-> DiffPath,
     lines |-> <<[operation |-> OpAdd, content |-> TextX \o <<32>>]>>]

CommitC2 ==
    [hash |-> <<99, 50>>, timestamp |-> 3, filename |-> DiffPath,
     lines |-> <<[operation |-> OpAdd, content |-> <<32>> \o TextX]>>]

Commits == {CommitC1, CommitC2}

CommitHashes == {commit.hash : commit \in Commits}

\* The lines that are stored: '+' x and '-' x of /w/d/a, '+' x of /w/e/a and
\* of /w/d/b, '+' y of /w/d/a.
StoredLines ==
    {[absolutePath |-> AbsDA, operation |-> OpAdd, content |-> TextX],
     [absolutePath |-> AbsDA, operation |-> OpDel, content |-> TextX],
     [absolutePath |-> AbsEA, operation |-> OpAdd, content |-> TextX],
     [absolutePath |-> AbsDB, operation |-> OpAdd, content |-> TextX],
     [absolutePath |-> AbsDA, operation |-> OpAdd, content |-> TextY]}

\* The AICodeLine of a stored line: the hash of its item, and the time.
AICodeLine(line, time) ==
    [hash |-> calculateCodeHash(FileA, line.operation, line.content),
     operation |-> line.operation, content |-> line.content, timestamp |-> time]

\* storeAICodeLine calls in a session.
MaxStored == 2

VARIABLES
    aiCodeStorage,    \* AICodeStorage: fileStats and the time of ai-stats.json
    gitAnalyzer       \* GitCommitAnalyzer: the cache and the last analyzeCommit

InitialStorage == [fileStats |-> <<>>, statsFile |-> NoStatsFile, stored |-> 0]

InitialGitAnalyzer ==
    [cache |-> [hash \in CommitHashes |-> NoCached],
     last |-> [hash |-> NoHash, served |-> "none", analysis |-> NoAnalysis]]

\* ------------------------------------------------------------------------
\* CursorDatabase: the file watchers, their restart timers and the debounced
\* check
\*
\* A database db is a record of dbWatchers (the map's entries: name and
\* the FSWatcher it holds), restartTimers (the map's entries: name and the
\* timeout it holds), eventDebouncer, currentCallback (whether one is
\* set), and of what exists outside the object: open (the FSWatchers not
\* closed) and timeouts (the restart timeouts not cleared and not yet
\* fired, each with the time it is due).  FSWatchers and timeouts are
\* numbered as they are created.  Observed of it: monitoring ("idle"
\* before the first watchForChanges, then "watching" or "stopped"), the
\* calls of currentCallback (delivered), the changes reported, what the last stopWatching counted
\* (stoppedCount, clearedTimers), whether it cleared a pending debounce,
\* and when it ran.
\* ------------------------------------------------------------------------

\* setTimeout(..., 2000) of restartWatcher, scaled as maxDelay is
RestartDelay == 4

WatcherNames == {"main_db", "db_dir", "wal"}

InitialDatabase ==
    [dbWatchers |-> {}, restartTimers |-> {}, open |-> {}, timeouts |-> {},
     eventDebouncer |-> InitialDebouncer, currentCallback |-> FALSE,
     created |-> 0, monitoring |-> "idle", delivered |-> 0, starts |-> 0, errors |-> 0,
     changes |-> 0,
     stoppedCount |-> 0, clearedTimers |-> 0, clearedPending |-> FALSE, stoppedAt |-> NoTime]

\* The entries of a map under a key.
EntriesOf(map, name) == {e \in map : e.name = name}

\* createDatabaseWatcher(name, targetPath): nothing when the target does
\* not exist; else fs.watch and dbWatchers.set(name, ...)
createDatabaseWatcher(db, name, exists) ==
    IF ~exists THEN db
    ELSE [db EXCEPT !.created = @ + 1,
                    !.open = @ \cup {[name |-> name, id |-> db.created + 1]},
                    !.dbWatchers = (@ \ EntriesOf(@, name))
                                   \cup {[name |-> name, id |-> db.created + 1]}]

\* restartWatcher(name, targetPath): the old watcher is closed and
\* forgotten, the pending restart timer is cleared, a new one is set.
restartWatcher(db, name) ==
    [db EXCEPT !.open = @ \ EntriesOf(db.dbWatchers, name),
               !.dbWatchers = @ \ EntriesOf(@, name),
               !.created = @ + 1,
               !.timeouts = {t \in @ : [name |-> t.name, id |-> t.id] \notin EntriesOf(db.restartTimers, name)}
                            \cup {[name |-> name, id |-> db.created + 1,
                                   due |-> db.eventDebouncer.clock + RestartDelay]},
               !.restartTimers = (@ \ EntriesOf(@, name))
                                 \cup {[name |-> name, id |-> db.created + 1]}]

\* The restart timeout's callback: restartTimers.delete(name), then
\* createDatabaseWatcher(name, targetPath)
restartTimeout(db, timeout, exists) ==
    createDatabaseWatcher([db EXCEPT !.timeouts = @ \ {timeout},
                                     !.restartTimers = @ \ EntriesOf(@, timeout.name)],
                          timeout.name, exists)

\* smartCheckForNewItems(): the callback is called when the database
\* file's size or mtime differs from the cached one
smartCheckForNewItems(db, hasMetadataChanged) ==
    IF hasMetadataChanged /\ db.currentCallback
    THEN [db EXCEPT !.delivered = @ + 1]
    ELSE db

\* trigger invokes the callback at once when the first trigger is maxDelay old.
TriggerInvokes(d) ==
    /\ d.callback
    /\ d.firstTriggerTime # NoTime
    /\ d.clock - d.firstTriggerTime >= maxDelay

\* handleDatabaseEvent(watcherName, ...): a relevant change triggers the
\* debouncer, whose callback is smartCheckForNewItems
handleDatabaseEvent(db, watcherName, relevant, hasMetadataChanged) ==
    IF ~relevant THEN [db EXCEPT !.changes = @ + 1]
    ELSE IF TriggerInvokes(db.eventDebouncer)
         THEN smartCheckForNewItems(
                  [db EXCEPT !.eventDebouncer = trigger(@, watcherName), !.changes = @ + 1],
                  hasMetadataChanged)
         ELSE [db EXCEPT !.eventDebouncer = trigger(@, watcherName), !.changes = @ + 1]

\* The debouncer's timeout: execute(), which calls the callback when one
\* is set and events are pending
debounceTimeout(db, hasMetadataChanged) ==
    IF db.eventDebouncer.callback /\ db.eventDebouncer.pendingEvents # {}
    THEN smartCheckForNewItems([db EXCEPT !.eventDebouncer = execute(@)], hasMetadataChanged)
    ELSE [db EXCEPT !.eventDebouncer = execute(@)]

\* stopWatching that leaves the restart timers armed
stopWatchingKeepTimers(db, time) ==
    [db EXCEPT !.open = @ \ db.dbWatchers,
               !.dbWatchers = {},
               !.eventDebouncer = clear(@),
               !.currentCallback = FALSE,
               !.monitoring = "stopped",
               !.stoppedCount = Cardinality(db.dbWatchers),
               !.clearedTimers = 0,
               !.clearedPending = db.eventDebouncer.timer # NoTimer,
               !.stoppedAt = time]

\* stopWatching(): every watcher of the map is closed, every restart timer
\* of the map is cleared, both maps are emptied, the debouncer is cleared
\* and the callback is dropped.
stopWatching(db, time) ==
    [db EXCEPT !.open = @ \ db.dbWatchers,
               !.dbWatchers = {},
               !.timeouts = {t \in @ : [name |-> t.name, id |-> t.id] \notin db.restartTimers},
               !.restartTimers = {},
               !.eventDebouncer = clear(@),
               !.currentCallback = FALSE,
               !.monitoring = "stopped",
               !.stoppedCount = Cardinality(db.dbWatchers),
               !.clearedTimers = Cardinality(db.restartTimers),
               !.clearedPending = db.eventDebouncer.timer # NoTimer,
               !.stoppedAt = time]

\* The watchers watchForChanges creates, in its order: the database file,
\* its directory and, in WAL mode, the WAL file.
RECURSIVE CreateWatchers(_, _, _)
CreateWatchers(db, names, walMode) ==
    IF names = <<>> THEN db
    ELSE CreateWatchers(createDatabaseWatcher(db, Head(names), Head(names) # "wal" \/ walMode),
                        Tail(names), walMode)

\* watchForChanges(callback)
watchForChanges(db, walMode) ==
    CreateWatchers([db EXCEPT !.currentCallback = TRUE,
                              !.eventDebouncer = setCallback(@),
                              !.monitoring = "watching",
                              !.starts = @ + 1],
                   <<"main_db", "db_dir", "wal">>, walMode)

\* AICodeAnalyzer.startMonitoring(): the watch that is running is stopped
\* first.
startMonitoring(db, walMode) ==
    watchForChanges(IF db.monitoring = "watching"
                    THEN stopWatching(db, db.eventDebouncer.clock) ELSE db, walMode)

VARIABLES database    \* CursorDatabase: its watchers, timers and debouncer

VARIABLES deleted    \* the last call of DocumentVersionHistory.getDeletedContent

\* No call of getDeletedContent yet.
NoExtraction ==
    [fileName |-> NoFile, range |-> Range(Position(0, 0), Position(0, 0)),
     beforeVersion |-> 0, histories |-> <<>>, result |-> NoDeletedContent, calls |-> 0]

analysisVars == <<deleted, aiCodeStorage, gitAnalyzer, database>>

engineVars == <<recentLines, hashToContentCache, listenerCalls, matchedHashes,
                unmatchedAIItems, histories, now, recordCount>>

watcherVars == <<watcher, feed, historyFiles>>

sessionVars == <<monitor, debouncer, codeAnalyzer, hasher, solver, analysisVars>>

vars == <<recentLines, hashToContentCache, listenerCalls, matchedHashes,
          unmatchedAIItems, histories, now, recordCount, watcher, feed, historyFiles,
          monitor, debouncer, codeAnalyzer, hasher, solver, analysisVars>>

Init ==
    /\ recentLines = <<>>
    /\ hashToContentCache = <<>>
    /\ listenerCalls = [h \in ItemHashes |-> 0]
    /\ matchedHashes = {}
    /\ unmatchedAIItems = <<>>
    /\ histories = <<>>
    /\ now = 0
    /\ recordCount = 0
    /\ watcher = [lastKnownItems |-> <<>>, lastItemHash |-> NoHash,
                  unmatchedAIItems |-> <<>>, pendingIntermediates |-> <<>>,
                  timeWindows |-> <<>>, foundMappings |-> <<>>, aiItemsLRU |-> <<>>,
                  matchedHashes |-> {},
                  matchedDetails |-> [h \in TrackedHashes |-> NotFound],
                  scanned |-> {}, lastFile |-> NoFile]
    /\ feed = <<>>
    /\ historyFiles = 0
    /\ monitor = InitialMonitor
    /\ debouncer = InitialDebouncer
    /\ codeAnalyzer = InitialAnalyzer
    /\ hasher = InitialHasher
    /\ solver = InitialSolver
    /\ deleted = NoExtraction
    /\ aiCodeStorage = InitialStorage
    /\ gitAnalyzer = InitialGitAnalyzer
    /\ database = InitialDatabase

\* DocumentMonitor hands one captured edit to the engine.
RecordLineContent(edit) ==
    /\ monitor.isActive
    /\ recordCount < MaxRecords
    /\ recentLines' = recordLineContent(recentLines, NewRecord(edit, now))
    /\ recordCount' = recordCount + 1
    /\ UNCHANGED watcherVars
    /\ UNCHANGED sessionVars
    /\ UNCHANGED <<hashToContentCache, listenerCalls, matchedHashes,
                   unmatchedAIItems, histories, now>>

\* AICodeAnalyzer's fields that processNewAIItems touches.
Analyzer == [matchedHashes |-> matchedHashes, unmatchedAIItems |-> unmatchedAIItems]

\* The hashes of a list of results.
ResultHashes(results) == {results[k].hash : k \in 1..Len(results)}

\* for (const result of inferenceResults): markAsMatched, and the hash is
\* filtered out of unmatchedAIItems.
MarkResults(analyzer, inferred) ==
    [eng |-> inferred.eng,
     results |-> inferred.results,
     matchedHashes |-> analyzer.matchedHashes \cup ResultHashes(inferred.results),
     unmatchedAIItems |->
        SelectSeq(analyzer.unmatchedAIItems,
                  LAMBDA item : item.hash \notin ResultHashes(inferred.results))]

\* AICodeAnalyzer.processNewAIItems(newItems)
processNewAIItems(eng, analyzer, newItems, time) ==
    MarkResults(analyzer, inferHashContents(eng, newItems, time))

\* The feed delivers a batch of new items to the analyzer.
ProcessNewAIItems(newItems) ==
    \E after \in {processNewAIItems(Engine, Analyzer, newItems, now)} :
        /\ monitor.isActive
        /\ recentLines' = after.eng.lines
        /\ hashToContentCache' = after.eng.cache
        /\ listenerCalls' = after.eng.calls
        /\ matchedHashes' = after.matchedHashes
        /\ unmatchedAIItems' = after.unmatchedAIItems
        /\ UNCHANGED watcherVars
        /\ UNCHANGED sessionVars
        /\ UNCHANGED <<histories, now, recordCount>>

\* LineBasedHashInference.cleanup(maxAge)
Cleanup(maxAge) ==
    /\ recentLines' = cleanup(recentLines, now - maxAge)
    /\ UNCHANGED watcherVars
    /\ UNCHANGED sessionVars
    /\ UNCHANGED <<hashToContentCache, listenerCalls, matchedHashes,
                   unmatchedAIItems, histories, now, recordCount>>

\* The latest version held for fileName, 0 when none.
LatestVersion(fileName) ==
    LET k == EntryIndex(histories, fileName)
    IN IF k = 0 THEN 0 ELSE histories[k].lines[Len(histories[k].lines)].version

\* DocumentVersionHistory.recordSnapshot(document): a snapshot is taken at
\* every change of the document, whose version advances by one.
RecordSnapshot(fileName, lines) ==
    /\ monitor.isActive
    /\ LatestVersion(fileName) < MaxVersion
    /\ histories' = recordSnapshot(histories, fileName, LatestVersion(fileName) + 1, lines, now)
    /\ UNCHANGED watcherVars
    /\ UNCHANGED sessionVars
    /\ UNCHANGED <<recentLines, hashToContentCache, listenerCalls, matchedHashes,
                   unmatchedAIItems, now, recordCount>>

\* Date.now() advances, up to limit.
TickWithin(limit) ==
    /\ now < limit
    /\ now' = now + 1
    /\ UNCHANGED watcherVars
    /\ UNCHANGED sessionVars
    /\ UNCHANGED <<recentLines, hashToContentCache, listenerCalls, matchedHashes,
                   unmatchedAIItems, histories, recordCount>>

\* The maintenance interval of DocumentMonitor.start fires:
\* versionHistory.performMaintenance().  (cleanupOldChanges prunes
\* recentChanges, which the engine does not read.)
Maintenance ==
    /\ monitor.isActive
    /\ histories' = performMaintenance(histories, now)
    /\ UNCHANGED watcherVars
    /\ UNCHANGED sessionVars
    /\ UNCHANGED <<recentLines, hashToContentCache, listenerCalls, matchedHashes,
                   unmatchedAIItems, now, recordCount>>

\* DocumentMonitor.stop(): hashInference.cleanup() with its default maxAge
\* of 300000 ms, versionHistory.clear()
Stop ==
    /\ monitor.isActive
    /\ monitor' = [monitor EXCEPT !.isActive = FALSE]
    /\ recentLines' = cleanup(recentLines, now - TIME_WINDOW)
    /\ histories' = clearHistories(histories)
    /\ UNCHANGED watcherVars
    /\ UNCHANGED <<debouncer, codeAnalyzer, hasher, solver, analysisVars>>
    /\ UNCHANGED <<hashToContentCache, listenerCalls, matchedHashes,
                   unmatchedAIItems, now, recordCount>>

\* DocumentMonitor.start()
Start ==
    /\ ~monitor.isActive
    /\ monitor' = [monitor EXCEPT !.isActive = TRUE]
    /\ UNCHANGED watcherVars
    /\ UNCHANGED <<debouncer, codeAnalyzer, hasher, solver, analysisVars>>
    /\ UNCHANGED engineVars

\* Date.now() advances.
Tick ==
    /\ now < MaxTime
    /\ now' = now + 1
    /\ UNCHANGED watcherVars
    /\ UNCHANGED sessionVars
    /\ UNCHANGED <<recentLines, hashToContentCache, listenerCalls, matchedHashes,
                   unmatchedAIItems, histories, recordCount>>

Next ==
    \/ \E edit \in Edits : RecordLineContent(edit)
    \/ \E newItems \in Batches : ProcessNewAIItems(newItems)
    \/ \E maxAge \in {0, TIME_WINDOW} : Cleanup(maxAge)
    \/ Tick

\* The engine's session.
Spec == Init /\ [][Next]_vars

NextCapacity ==
    \/ \E edit \in Edits : RecordLineContent(edit)
    \/ \E item \in Items : ProcessNewAIItems(<<item>>)
    \/ \E lines \in Documents : RecordSnapshot(FileA, lines)

\* The edits, the items and the document of the session with maintenance.
SessionEdits == {Edit(FileA, OpAdd, TextX, 1), Edit(FileB, OpAdd, TextX, 1)}

SessionItems ==
    {Item(calculateCodeHash(e.fileName, e.operation, e.content), e.fileName) :
        e \in SessionEdits}

NextSession ==
    \/ \E edit \in SessionEdits : RecordLineContent(edit)
    \/ \E item \in SessionItems : ProcessNewAIItems(<<item>>)
    \/ RecordSnapshot(FileA, <<TextX>>)
    \/ Maintenance
    \/ Stop
    \/ Start
    \/ TickWithin(MaxClock)

\* The monitoring session with its maintenance, its stop and its restart.
SpecSession == Init /\ [][NextSession]_vars

\* The session of the three bounded stores: records, result cache, snapshots.
SpecCapacity == Init /\ [][NextCapacity]_vars

\* Cursor appends an item to its tracking array.
FeedAppend(item) ==
    /\ Len(feed) < MaxFeed
    /\ feed' = Append(feed, item)
    /\ UNCHANGED <<watcher, historyFiles>>
    /\ UNCHANGED engineVars
    /\ UNCHANGED sessionVars

\* The database watcher fires: checkForNewItems reads the tracking array.
CheckForNewItems ==
    /\ watcher' = checkForNewItems([watcher EXCEPT !.scanned = {}, !.lastFile = NoFile], feed)
    /\ UNCHANGED <<feed, historyFiles>>
    /\ UNCHANGED engineVars
    /\ UNCHANGED sessionVars

\* Cursor saves a version in the History directory: handleHistoryEvent for
\* the new file, whose mtime is later than that of every file before it.
HistoryEvent(version) ==
    /\ historyFiles < MaxFiles
    /\ historyFiles' = historyFiles + 1
    /\ watcher' = handleHistoryEvent(
                      [watcher EXCEPT !.scanned = {}, !.lastFile = version.key],
                      [key |-> version.key, lines |-> version.lines,
                       mtime |-> historyFiles + 1])
    /\ UNCHANGED feed
    /\ UNCHANGED engineVars
    /\ UNCHANGED sessionVars

NextW ==
    \/ \E item \in TrackedItems : FeedAppend(item)
    \/ CheckForNewItems
    \/ \E version \in HistoryVersions : HistoryEvent(version)

SpecW == Init /\ [][NextW]_vars

\* The items Cursor appends in the analyzer's session, each with its place
\* in the order of appending.
FeedItem(item, id) == [hash |-> item.hash, fileName |-> item.fileName, id |-> id]

\* Cursor appends an item to aiCodeTrackingLines.
TrackingAppend(item) ==
    /\ codeAnalyzer.appended < MaxItems
    /\ feed' = Append(feed, FeedItem(item, codeAnalyzer.appended + 1))
    /\ codeAnalyzer' = [codeAnalyzer EXCEPT !.appended = @ + 1]
    /\ UNCHANGED <<watcher, historyFiles, monitor, debouncer, hasher, solver, analysisVars>>
    /\ UNCHANGED engineVars

\* Cursor drops the oldest item of aiCodeTrackingLines.
TrackingEvict ==
    /\ Len(feed) > 0
    /\ feed' = Tail(feed)
    /\ UNCHANGED <<watcher, historyFiles>>
    /\ UNCHANGED sessionVars
    /\ UNCHANGED engineVars

\* The database watcher's callback runs: checkForNewItems() is called, not
\* awaited, and waits for loadAITrackingItems().
CheckDispatched ==
    /\ codeAnalyzer.inFlight < MaxInFlight
    /\ codeAnalyzer' = [codeAnalyzer EXCEPT !.inFlight = @ + 1]
    /\ UNCHANGED <<monitor, debouncer, hasher, solver, analysisVars>>
    /\ UNCHANGED watcherVars
    /\ UNCHANGED engineVars

\* loadAITrackingItems() of a waiting check returns the tracking array: the
\* rest of checkForNewItems runs, processNewAIItems included.
CheckCompleted ==
    \E newItems \in {AnalyzerNewItems(codeAnalyzer, feed)} :
    \E after \in {processNewAIItems(Engine, Analyzer, newItems, now)} :
        /\ codeAnalyzer.inFlight > 0
        /\ codeAnalyzer' =
              [Delivered(AnalyzerKnown(codeAnalyzer, feed), newItems)
                  EXCEPT !.inFlight = @ - 1]
        /\ recentLines' = after.eng.lines
        /\ hashToContentCache' = after.eng.cache
        /\ listenerCalls' = after.eng.calls
        /\ matchedHashes' = after.matchedHashes
        /\ unmatchedAIItems' = after.unmatchedAIItems
        /\ UNCHANGED <<monitor, debouncer, hasher, solver, analysisVars>>
        /\ UNCHANGED watcherVars
        /\ UNCHANGED <<histories, now, recordCount>>

NextFeed ==
    \/ \E item \in SessionItems : TrackingAppend(item)
    \/ TrackingEvict
    \/ CheckDispatched
    \/ CheckCompleted
    \/ \E edit \in SessionEdits : RecordLineContent(edit)

\* The analyzer's session: the tracking array changes, checks are dispatched
\* and complete, edits are recorded.
SpecFeed == Init /\ [][NextFeed]_vars

debounceRest == <<monitor, codeAnalyzer, hasher, solver, analysisVars>>

\* watchForChanges registers the debouncer's callback.
SetCallback ==
    /\ ~debouncer.callback
    /\ debouncer' = setCallback(debouncer)
    /\ UNCHANGED debounceRest
    /\ UNCHANGED watcherVars
    /\ UNCHANGED engineVars

\* A file watcher created by watchForChanges reports an event:
\* handleDatabaseEvent calls trigger(eventSource).  A timeout that is due
\* runs first.
Trigger(eventSource) ==
    /\ debouncer.callback
    /\ debouncer.triggers < MaxTriggers
    /\ ~TimerDue(debouncer)
    /\ debouncer' = trigger(debouncer, eventSource)
    /\ UNCHANGED debounceRest
    /\ UNCHANGED watcherVars
    /\ UNCHANGED engineVars

\* The timeout set by trigger runs: () => this.execute()
TimerFires ==
    /\ TimerDue(debouncer)
    /\ debouncer' = execute(debouncer)
    /\ UNCHANGED debounceRest
    /\ UNCHANGED watcherVars
    /\ UNCHANGED engineVars

\* The watchers are stopped: eventDebouncer.clear()
Clear ==
    /\ debouncer.callback
    /\ debouncer' = clear(debouncer)
    /\ UNCHANGED debounceRest
    /\ UNCHANGED watcherVars
    /\ UNCHANGED engineVars

\* Date.now() advances by a millisecond (scaled); a timeout runs when it is
\* due, before time goes on.
AdvanceClock ==
    /\ debouncer.clock < MaxDebounceClock
    /\ ~TimerDue(debouncer)
    /\ debouncer' = [debouncer EXCEPT !.clock = @ + 1]
    /\ UNCHANGED debounceRest
    /\ UNCHANGED watcherVars
    /\ UNCHANGED engineVars

NextDebounce ==
    \/ SetCallback
    \/ \E eventSource \in EventSources : Trigger(eventSource)
    \/ TimerFires
    \/ Clear
    \/ AdvanceClock

\* The debouncer's session.
SpecDebounce == Init /\ [][NextDebounce]_vars

hashRest == <<monitor, debouncer, codeAnalyzer, solver, analysisVars>>

\* HashUtils.murmurhash3(str, seed) is called.
Murmurhash3(str, seed) ==
    /\ hasher' = [hasher EXCEPT !.str = str, !.seed = seed, !.hash = murmurhash3(str, seed)]
    /\ UNCHANGED hashRest
    /\ UNCHANGED watcherVars
    /\ UNCHANGED engineVars

\* HashUtils.calculateCodeHash(fileName, operation, content) is called: the
\* first call and its result are kept.
CalculateCodeHash(call) ==
    \E hash \in {HashOfCall(call)} :
        /\ hasher' = [hasher EXCEPT
                          !.str = HashInput(call),
                          !.seed = Word(0),
                          !.hash = hash,
                          !.first = IF @ = NoCall THEN call ELSE @,
                          !.firstHash = IF hasher.first = NoCall THEN hash ELSE @]
        /\ UNCHANGED hashRest
        /\ UNCHANGED watcherVars
        /\ UNCHANGED engineVars

NextHash ==
    \/ \E seed \in HashSeeds : Murmurhash3(<<>>, seed)
    \/ \E c \in HashUnits, seed \in HashSeeds :
          Len(hasher.str) < MaxLen /\ Murmurhash3(Append(hasher.str, c), seed)
    \/ \E call \in HashCalls : CalculateCodeHash(call)

\* The calls of HashUtils.
SpecHash == Init /\ [][NextHash]_vars

solverRest == <<monitor, debouncer, codeAnalyzer, hasher, analysisVars>>

\* detectIntermediate: the pair is likely and searchInTimeWindow(nextItem) has
\* resolved with the content of the next item.
DetectIntermediate(hash, content) ==
    /\ solver.strategy # "pending"
    /\ solver' = [suspectedItem |-> [fileName |-> FileA, hash |-> hash],
                  fullContent |-> content, strategy |-> "pending", result |-> NotFound]
    /\ UNCHANGED solverRest
    /\ UNCHANGED watcherVars
    /\ UNCHANGED engineVars

\* detectIntermediate returns generateIntermediateFromNext(suspectedItem, nextMatch).
GenerateIntermediateFromNext ==
    /\ solver.strategy = "pending"
    /\ solver' = [solver EXCEPT
                     !.strategy = "next",
                     !.result = generateIntermediateFromNext(solver.suspectedItem,
                                    [content |-> solver.fullContent])]
    /\ UNCHANGED solverRest
    /\ UNCHANGED watcherVars
    /\ UNCHANGED engineVars

\* generateIntermediateFromPairedSymbols(suspectedItem, nextMatch) on its own.
GenerateIntermediateFromPairedSymbols ==
    /\ solver.strategy = "pending"
    /\ solver' = [solver EXCEPT
                     !.strategy = "pairs",
                     !.result = generateIntermediateFromPairedSymbols(solver.suspectedItem,
                                    solver.fullContent)]
    /\ UNCHANGED solverRest
    /\ UNCHANGED watcherVars
    /\ UNCHANGED engineVars

NextSolver ==
    \/ \E content \in SolverContents : \E hash \in SolverTargets(content) :
          DetectIntermediate(hash, content)
    \/ GenerateIntermediateFromNext
    \/ GenerateIntermediateFromPairedSymbols

\* The runs of the intermediate-state solver.
SpecSolver == Init /\ [][NextSolver]_vars

monitorRest == <<debouncer, codeAnalyzer, hasher, solver, analysisVars>>

\* onDidOpenTextDocument: captureDocumentSnapshot(document, 'onOpen')
OpenTextDocument(fileName) ==
    /\ monitor.isActive
    /\ monitor' = [monitor EXCEPT
                      !.documentSnapshots =
                          captureDocumentSnapshot(@, fileName, monitor.documents[fileName], now)]
    /\ UNCHANGED monitorRest
    /\ UNCHANGED watcherVars
    /\ UNCHANGED engineVars

\* onDidChangeActiveTextEditor: ensureSnapshotExists(editor.document, 'onActive')
ChangeActiveTextEditor(fileName) ==
    /\ monitor.isActive
    /\ monitor' = [monitor EXCEPT
                      !.documentSnapshots =
                          ensureSnapshotExists(@, fileName, monitor.documents[fileName], now)]
    /\ UNCHANGED monitorRest
    /\ UNCHANGED watcherVars
    /\ UNCHANGED engineVars

\* onDidChangeTextDocument: the editor has applied the changes, and
\* handleTextDocumentChangeWithPreSnapshot(event) runs on the document as it
\* is now; every record goes to the engine.
ChangeTextDocument(fileName, contentChanges) ==
    \E document \in {ChangedDocument(monitor.documents[fileName], contentChanges)} :
      \E handled \in {handleTextDocumentChangeWithPreSnapshot(monitor.documentSnapshots,
                          fileName, document, contentChanges, now)} :
        /\ monitor.isActive
        /\ monitor' = [monitor EXCEPT
                          !.documents[fileName] = document,
                          !.documentSnapshots = handled.documentSnapshots,
                          !.lastEvent = [fileName |-> fileName,
                                         contentChanges |-> contentChanges,
                                         snapshot |-> monitor.documentSnapshots[fileName],
                                         records |-> handled.records],
                          !.events = @ + 1]
        /\ recentLines' = RecordAll(recentLines, handled.records)
        /\ recordCount' = recordCount + Len(handled.records)
        /\ UNCHANGED monitorRest
        /\ UNCHANGED watcherVars
        /\ UNCHANGED <<hashToContentCache, listenerCalls, matchedHashes,
                       unmatchedAIItems, histories, now>>

NextMonitor ==
    \/ \E fileName \in DocFiles : OpenTextDocument(fileName)
    \/ \E fileName \in DocFiles : ChangeActiveTextEditor(fileName)
    \/ /\ monitor.events < MaxEvents
       /\ \E fileName \in DocFiles :
             \E contentChanges \in ContentChangesOf(monitor.documents[fileName]) :
                 ChangeTextDocument(fileName, contentChanges)

\* The documents' session: documents opened, activated and edited.
SpecMonitor == Init /\ [][NextMonitor]_vars

\* ------------------------------------------------------------------------
\* The calls of DocumentVersionHistory
\* ------------------------------------------------------------------------

\* The documents of the history: "ab", "", "cd" on three lines, and "xy".
HistoryDocuments == {<<LineA \o LineB, <<>>, LineC \o <<100>>>>, <<TextX \o TextY>>}

\* The positions asked for: lines 0..3 and characters 0..3, so that some lie
\* outside every document.
MaxPosition == 3

\* The calls of getDeletedContent in a session.
MaxCalls == 1

HistoryPositions == {Position(l, c) : l \in 0..MaxPosition, c \in 0..MaxPosition}

\* vscode.Range orders its two positions.
IsBefore(p, q) == p.line < q.line \/ (p.line = q.line /\ p.character <= q.character)

HistoryRanges == {Range(p, q) : <<p, q>> \in {pq \in HistoryPositions \X HistoryPositions : IsBefore(pq[1], pq[2])}}

historyRest == <<monitor, debouncer, codeAnalyzer, hasher, solver>>

\* recordSnapshot(document) for a document whose version is the given one:
\* versions grow, and not every version is recorded.
RecordSnapshotAt(fileName, version, lines) ==
    /\ LatestVersion(fileName) < version
    /\ histories' = recordSnapshot(histories, fileName, version, lines, now)
    /\ UNCHANGED analysisVars
    /\ UNCHANGED historyRest
    /\ UNCHANGED watcherVars
    /\ UNCHANGED <<recentLines, hashToContentCache, listenerCalls, matchedHashes,
                   unmatchedAIItems, now, recordCount>>

\* getDeletedContent(fileName, range, beforeVersion) is called.
GetDeletedContent(fileName, range, beforeVersion) ==
    /\ deleted.calls < MaxCalls
    /\ deleted' = [fileName |-> fileName, range |-> range, beforeVersion |-> beforeVersion,
                   histories |-> histories,
                   result |-> getDeletedContent(histories, fileName, range, beforeVersion),
                   calls |-> deleted.calls + 1]
    /\ UNCHANGED <<aiCodeStorage, gitAnalyzer, database>>
    /\ UNCHANGED historyRest
    /\ UNCHANGED watcherVars
    /\ UNCHANGED engineVars

NextHistory ==
    \/ \E version \in 1..MaxVersion, lines \in HistoryDocuments :
          RecordSnapshotAt(FileA, version, lines)
    \/ /\ deleted.calls < MaxCalls
       /\ \E fileName \in {FileA, FileB}, beforeVersion \in 0..(MaxVersion + 1) :
             \E range \in HistoryRanges : GetDeletedContent(fileName, range, beforeVersion)

\* The snapshots of a file and the reconstructions asked of them.
SpecHistory == Init /\ [][NextHistory]_vars

\* ------------------------------------------------------------------------
\* The commit analysis
\* ------------------------------------------------------------------------

gitRest == <<monitor, debouncer, codeAnalyzer, hasher, solver, deleted, database>>

\* AICodeAnalyzer stores the line of a resolved item.
StoreAICodeLine(line) ==
    /\ aiCodeStorage.stored < MaxStored
    /\ aiCodeStorage' = storeAICodeLine(aiCodeStorage, line.absolutePath,
                                        AICodeLine(line, now), now)
    /\ UNCHANGED gitAnalyzer
    /\ UNCHANGED gitRest
    /\ UNCHANGED watcherVars
    /\ UNCHANGED engineVars

\* analyzeRecentCommits reaches analyzeCommit(workspaceRoot, hash) for a
\* commit that has been made.
AnalyzeCommit(commit) ==
    \E after \in {analyzeCommit(gitAnalyzer.cache, aiCodeStorage, commit, now)} :
        /\ commit.timestamp <= now
        /\ gitAnalyzer' = [cache |-> after.cache,
                           last |-> [hash |-> commit.hash, served |-> after.served,
                                     analysis |-> after.analysis]]
        /\ UNCHANGED aiCodeStorage
        /\ UNCHANGED gitRest
        /\ UNCHANGED watcherVars
        /\ UNCHANGED engineVars

NextGit ==
    \/ \E line \in StoredLines : StoreAICodeLine(line)
    \/ \E commit \in Commits : AnalyzeCommit(commit)
    \/ TickWithin(MaxClock)

\* The storage of resolved lines and the analyses of the commits.
SpecGit == Init /\ [][NextGit]_vars

\* ------------------------------------------------------------------------
\* The database watch
\* ------------------------------------------------------------------------

MaxStarts == 2      \* startMonitoring calls in the watch's session
MaxErrors == 1      \* watcher errors in the watch's session
MaxChanges == 2     \* changes the watchers report in the watch's session
MaxDelivered == 2   \* checks delivered in the watch's session
MaxWatchClock == 7  \* milliseconds (scaled) the watch's session lasts

databaseRest == <<monitor, debouncer, codeAnalyzer, hasher, solver, deleted,
                  aiCodeStorage, gitAnalyzer>>

\* Nothing that is due is waiting: timeouts fire before later events.
NothingDue ==
    /\ ~TimerDue(database.eventDebouncer)
    /\ \A t \in database.timeouts : database.eventDebouncer.clock < t.due

\* AICodeAnalyzer.startMonitoring()
StartMonitoring(walMode) ==
    /\ database.starts < MaxStarts
    /\ NothingDue
    /\ database' = startMonitoring(database, walMode)
    /\ UNCHANGED databaseRest
    /\ UNCHANGED watcherVars
    /\ UNCHANGED engineVars

\* AICodeAnalyzer.stopMonitoring(): the function watchForChanges returned
StopMonitoring ==
    /\ database.monitoring = "watching"
    /\ NothingDue
    /\ database' = stopWatching(database, database.eventDebouncer.clock)
    /\ UNCHANGED databaseRest
    /\ UNCHANGED watcherVars
    /\ UNCHANGED engineVars

\* An open FSWatcher reports a change.
DatabaseEvent(w, relevant, hasMetadataChanged) ==
    /\ w \in database.open
    /\ NothingDue
    /\ database.changes < MaxChanges
    /\ database.delivered < MaxDelivered
    /\ database' = handleDatabaseEvent(database, w.name, relevant, hasMetadataChanged)
    /\ UNCHANGED databaseRest
    /\ UNCHANGED watcherVars
    /\ UNCHANGED engineVars

\* An open FSWatcher fails: it closes itself and emits 'error', whose
\* handler is restartWatcher.
WatcherError(w) ==
    /\ w \in database.open
    /\ NothingDue
    /\ database.errors < MaxErrors
    /\ database' = restartWatcher([database EXCEPT !.open = @ \ {w}, !.errors = @ + 1], w.name)
    /\ UNCHANGED databaseRest
    /\ UNCHANGED watcherVars
    /\ UNCHANGED engineVars

\* A restart timeout that is armed comes due.
RestartTimeout(t, exists) ==
    /\ t \in database.timeouts
    /\ database.eventDebouncer.clock >= t.due
    /\ database' = restartTimeout(database, t, exists)
    /\ UNCHANGED databaseRest
    /\ UNCHANGED watcherVars
    /\ UNCHANGED engineVars

\* The debouncer's timeout comes due.
DebounceTimeout(hasMetadataChanged) ==
    /\ TimerDue(database.eventDebouncer)
    /\ database.delivered < MaxDelivered
    /\ database' = debounceTimeout(database, hasMetadataChanged)
    /\ UNCHANGED databaseRest
    /\ UNCHANGED watcherVars
    /\ UNCHANGED engineVars

\* Date.now() advances.
DatabaseTick ==
    /\ database.eventDebouncer.clock < MaxWatchClock
    /\ NothingDue
    /\ database' = [database EXCEPT !.eventDebouncer.clock = @ + 1]
    /\ UNCHANGED databaseRest
    /\ UNCHANGED watcherVars
    /\ UNCHANGED engineVars

NextDatabase ==
    \/ \E walMode \in BOOLEAN : StartMonitoring(walMode)
    \/ StopMonitoring
    \/ \E w \in database.open : \E relevant, hasMetadataChanged \in BOOLEAN :
          DatabaseEvent(w, relevant, hasMetadataChanged)
    \/ \E w \in database.open : WatcherError(w)
    \/ \E t \in database.timeouts : \E exists \in BOOLEAN : RestartTimeout(t, exists)
    \/ \E hasMetadataChanged \in BOOLEAN : DebounceTimeout(hasMetadataChanged)
    \/ DatabaseTick

\* The database watch: started, stopped and started again, with changes
\* and failures of the watchers in between.
SpecDatabase == Init /\ [][NextDatabase]_vars

\* ------------------------------------------------------------------------
\* The scan of the records
\* ------------------------------------------------------------------------

\* The edits of the scan's session: the line x added to a, to d/a and to b,
\* and removed from a.
ScanEdits ==
    {Edit(FileA, OpAdd, TextX, 1), Edit(DiffPath, OpAdd, TextX, 1),
     Edit(FileB, OpAdd, TextX, 1), Edit(FileA, OpDel, TextX, 2)}

\* Its items: the hash of a:+x under a and under /w/a, the hash of /w/a:+x
\* under /w/a, the hash of b:+x under b and the hash of a:-x under a.
ScanItems ==
    {Item(calculateCodeHash(FileA, OpAdd, TextX), FileA),
     Item(calculateCodeHash(FileA, OpAdd, TextX), AbsA),
     Item(calculateCodeHash(AbsA, OpAdd, TextX), AbsA),
     Item(calculateCodeHash(FileB, OpAdd, TextX), FileB),
     Item(calculateCodeHash(FileA, OpDel, TextX), FileA)}

NextScan ==
    \/ \E edit \in ScanEdits : RecordLineContent(edit)
    \/ \E item \in ScanItems : ProcessNewAIItems(<<item>>)

\* Records of related and unrelated files, and items scanned against them.
SpecScan == Init /\ [][NextScan]_vars

\* ------------------------------------------------------------------------
\* Properties of the engine
\* ------------------------------------------------------------------------

\* Every record held, with its place: <<file index, line index>>.
RecordPlaces(entries) ==
    {<<k, i>> \in (1..Len(entries)) \X (1..MAX_LINES_PER_FILE + 1) : i <= Len(entries[k].lines)}

RecordAt(entries, place) == entries[place[1]].lines[place[2]]

\* The item that carries edit's hash under edit's own file name.
ItemOf(edit) ==
    Item(calculateCodeHash(edit.fileName, edit.operation, edit.content), edit.fileName)

\* C1: no record is consumed by more than one item: a record is marked used
\* at most once, its used flag stays set once set (it is set exactly when one
\* item has consumed it), and resolving any item leaves every used record as
\* it is, so a used record is never a match candidate again.
C1_RecordConsumedAtMostOnce ==
    \A place \in RecordPlaces(recentLines) :
        LET record == RecordAt(recentLines, place)
        IN /\ record.consumers <= 1
           /\ record.used <=> record.consumers = 1
           /\ record.used =>
                \A item \in Items :
                    RecordAt(inferSingleHash(Engine, item, now).eng.lines, place) = record

\* A used record is held, and an item whose hash it carries is no longer
\* answered by the cache: only the used flag keeps the record from matching.
C1_Witness ==
    \E place \in RecordPlaces(recentLines) : \E item \in Items :
        LET record == RecordAt(recentLines, place)
        IN /\ record.used
           /\ record.consumers = 1
           /\ item.fileName # NoName
           /\ isFileNameRelated(item.fileName, record.fileName)
           /\ MatchedName(item, record) # NoName
           /\ ~CacheHas(hashToContentCache, item.hash)
           /\ item.hash \in matchedHashes

\* The unused records of edit's file that carry edit's operation and content.
UnusedCopies(entries, edit) ==
    {place \in RecordPlaces(entries) :
        /\ entries[place[1]].fileName = edit.fileName
        /\ RecordAt(entries, place).operation = edit.operation
        /\ RecordAt(entries, place).content = edit.content
        /\ ~RecordAt(entries, place).used}

\* C2 (as stated): with two identical unused records held, resolving two
\* items that carry their hash consumes two distinct records, and both are
\* marked used afterwards.
C2_EachItemConsumesDistinctRecord ==
    \A edit \in Edits :
        Cardinality(UnusedCopies(recentLines, edit)) >= 2 =>
            LET after == inferHashContents(Engine, <<ItemOf(edit), ItemOf(edit)>>, now)
            IN Cardinality(UnusedCopies(after.eng.lines, edit))
                 = Cardinality(UnusedCopies(recentLines, edit)) - 2

\* C2 (amended): with two identical unused records held, resolving two items
\* that carry their hash yields two equal results; the first item consumes
\* one record unless the hash is already cached, the second item is answered
\* from the cache and consumes none, so one of the two records stays unused;
\* no record is consumed twice.
C2_SecondItemAnsweredFromCache ==
    \A edit \in Edits :
        Cardinality(UnusedCopies(recentLines, edit)) >= 2 =>
            LET after == inferHashContents(Engine, <<ItemOf(edit), ItemOf(edit)>>, now)
            IN /\ Len(after.results) = 2
               /\ after.results[1] = after.results[2]
               /\ after.results[1].content = edit.content
               /\ after.results[1].operation = edit.operation
               /\ Cardinality(UnusedCopies(after.eng.lines, edit))
                    = Cardinality(UnusedCopies(recentLines, edit))
                        - (IF CacheHas(hashToContentCache, ItemOf(edit).hash) THEN 0 ELSE 1)
               /\ \A place \in RecordPlaces(after.eng.lines) :
                    RecordAt(after.eng.lines, place).consumers <= 1

\* Two identical records are held, the hash they carry has been resolved and
\* is cached, one of them is used and the other is still unused.
C2_Witness ==
    \E edit \in Edits : \E p1, p2 \in RecordPlaces(recentLines) :
        /\ p1[1] = p2[1] /\ p1[2] < p2[2]
        /\ recentLines[p1[1]].fileName = edit.fileName
        /\ \A p \in {p1, p2} : /\ RecordAt(recentLines, p).operation = edit.operation
                               /\ RecordAt(recentLines, p).content = edit.content
        /\ RecordAt(recentLines, p1).used
        /\ ~RecordAt(recentLines, p2).used
        /\ CacheHas(hashToContentCache, ItemOf(edit).hash)
        /\ ItemOf(edit).hash \in matchedHashes
        /\ listenerCalls[ItemOf(edit).hash] = 1

\* C3 (as stated): for every hash, the listener has been invoked once if the
\* hash has been resolved and not at all otherwise.
C3_ListenerOncePerResolvedHash ==
    \A h \in ItemHashes : listenerCalls[h] = (IF h \in matchedHashes THEN 1 ELSE 0)

\* C4: round trip. In every state, for every edit, recording the edit and then
\* resolving the item that carries calculateCodeHash(fileName, operation,
\* content) under the same fileName returns a result with exactly that
\* content and that operation.
C4_RoundTrip ==
    \A edit \in Edits :
        LET recorded == [Engine EXCEPT !.lines = recordLineContent(recentLines, NewRecord(edit, now))]
            found == inferSingleHash(recorded, ItemOf(edit), now).result
        IN /\ Len(found) = 1
           /\ found[1].content = edit.content
           /\ found[1].operation = edit.operation
           /\ found[1].hash = calculateCodeHash(edit.fileName, edit.operation, edit.content)

\* A record has been consumed by the item that carries its own hash, the
\* result cached under that hash has the record's content and operation, and
\* a record of the same file and content with the other operation is held too.
C4_Witness ==
    \E place, other \in RecordPlaces(recentLines) :
        LET record == RecordAt(recentLines, place)
            hash == calculateCodeHash(record.fileName, record.operation, record.content)
        IN /\ record.used
           /\ CacheHas(hashToContentCache, hash)
           /\ CacheGet(hashToContentCache, hash).content = record.content
           /\ CacheGet(hashToContentCache, hash).operation = record.operation
           /\ CacheGet(hashToContentCache, hash).lineNumber = record.lineNumber
           /\ other[1] = place[1]
           /\ RecordAt(recentLines, other).content = record.content
           /\ RecordAt(recentLines, other).operation # record.operation

\* C5 (as stated): an item that fails to resolve is kept in unmatchedAIItems,
\* and no kept item has matching evidence waiting, so that evidence arriving
\* later resolves it without a new delivery.
C5_FailedItemKeptForRetry ==
    /\ \A item \in Items :
        LET after == processNewAIItems(Engine, Analyzer, <<item>>, now)
        IN after.results = <<>> =>
             \E k \in 1..Len(after.unmatchedAIItems) : after.unmatchedAIItems[k] = item
    /\ \A k \in 1..Len(unmatchedAIItems) :
        inferSingleHash(Engine, unmatchedAIItems[k], now).result = <<>>

\* C10: no file holds more than MAX_LINES_PER_FILE records, the result cache
\* holds at most MAX_CACHE_SIZE entries, and no file's snapshot history holds
\* more than MAX_VERSIONS_PER_FILE snapshots.
C10_ContainersWithinBounds ==
    /\ \A k \in 1..Len(recentLines) : Len(recentLines[k].lines) <= MAX_LINES_PER_FILE
    /\ Len(hashToContentCache) <= MAX_CACHE_SIZE
    /\ \A k \in 1..Len(histories) : Len(histories[k].lines) <= MAX_VERSIONS_PER_FILE

\* All three stores are full after each has overflowed: more records were
\* recorded than are held, more hashes were resolved than are cached, and
\* the first snapshot is gone from the history.
C10_Witness ==
    /\ \E k \in 1..Len(recentLines) : Len(recentLines[k].lines) = MAX_LINES_PER_FILE
    /\ recordCount > Cardinality(RecordPlaces(recentLines))
    /\ Len(hashToContentCache) = MAX_CACHE_SIZE
    /\ Cardinality(matchedHashes) > MAX_CACHE_SIZE
    /\ \E k \in 1..Len(histories) :
        /\ Len(histories[k].lines) = MAX_VERSIONS_PER_FILE
        /\ histories[k].lines[1].version > 1
\* ------------------------------------------------------------------------
\* Properties of the watcher
\* ------------------------------------------------------------------------

\* C8: the unmatched queue never holds two items with the same hash.
C8_UnmatchedQueueHasDistinctHashes ==
    \A i, j \in 1..Len(watcher.unmatchedAIItems) :
        watcher.unmatchedAIItems[i].hash = watcher.unmatchedAIItems[j].hash => i = j

\* An item failed although the queue already held its hash, and the queue
\* holds the hash once: the item is in the array twice, the array has been
\* read, and nothing matched the hash.
C8_Witness ==
    \E i, j \in 1..Len(watcher.aiItemsLRU) :
        /\ i < j
        /\ watcher.aiItemsLRU[i].hash = watcher.aiItemsLRU[j].hash
        /\ watcher.aiItemsLRU[i].hash \notin watcher.matchedHashes
        /\ \E k \in 1..Len(watcher.unmatchedAIItems) :
              watcher.unmatchedAIItems[k].hash = watcher.aiItemsLRU[i].hash

\* The items of a queue.
QueueItems(queue) == {queue[i] : i \in 1..Len(queue)}

\* C6 (as the code has it): a new History file makes the watcher search again
\* the queued items whose fileName matches the file and then, the fallback
\* retry, every item the queue still holds, whatever its file; it searches
\* nothing but queued items, and no other event searches queued items again.
C6_NewFileRescansWholeQueue ==
    [][IF historyFiles' # historyFiles
       THEN /\ {item \in QueueItems(watcher.unmatchedAIItems) :
                    isFileMatch(item.fileName, watcher'.lastFile)} \subseteq watcher'.scanned
            /\ QueueItems(watcher'.unmatchedAIItems) \subseteq watcher'.scanned
            /\ watcher'.scanned \subseteq QueueItems(watcher.unmatchedAIItems)
       ELSE watcher'.scanned = {} \/ watcher' = watcher]_vars

\* A new file of one source file has made the watcher search again an item
\* of that file and an item of another file.
C6_Witness ==
    /\ watcher.lastFile # NoFile
    /\ \E item \in watcher.scanned : isFileMatch(item.fileName, watcher.lastFile)
    /\ \E item \in watcher.scanned : ~isFileMatch(item.fileName, watcher.lastFile)

\* C6 (as the specification has it): a new file makes the watcher search
\* again only the queued items whose fileName matches the file.
C6_OnlyItemsOfTheFileRescanned ==
    \A item \in watcher.scanned : isFileMatch(item.fileName, watcher.lastFile)

\* The item before the first occurrence of a hash in the tracking array is
\* still unmatched, belongs to the same file, and the solver finds it from
\* the content the hash was matched with.
PrecedingLeftSolvable(w, hash, index) ==
    /\ index > 1
    /\ w.aiItemsLRU[index - 1].fileName = w.aiItemsLRU[index].fileName
    /\ w.aiItemsLRU[index - 1].hash \notin w.matchedHashes
    /\ generateIntermediateFromNext(w.aiItemsLRU[index - 1], w.matchedDetails[hash]).found

\* C7 (as the code has it): when a hash becomes matched with operation '+',
\* the watcher has tried the solver, with the matched content as the full
\* content, on the item just before the hash in the tracking array if that
\* item is unmatched and of the same file: no such item is left that the
\* solver would find.
C7_AddMatchInfersPrecedingItem ==
    [][\A hash \in TrackedHashes :
          (/\ hash \notin watcher.matchedHashes
           /\ hash \in watcher'.matchedHashes
           /\ watcher'.matchedDetails[hash].operation = OpAdd)
          => ~PrecedingLeftSolvable(watcher', hash,
                                    findHashIndexInLRU(watcher'.aiItemsLRU, hash))]_vars

\* A hash is matched by the inference from the item after it, and that item
\* is matched with operation '+'.
C7_Witness ==
    \E i \in 2..Len(watcher.aiItemsLRU) :
        /\ watcher.aiItemsLRU[i - 1].hash \in watcher.matchedHashes
        /\ watcher.matchedDetails[watcher.aiItemsLRU[i - 1].hash].type = "intermediate_state"
        /\ ~watcher.matchedDetails[watcher.aiItemsLRU[i - 1].hash].derived
        /\ watcher.aiItemsLRU[i].hash \in watcher.matchedHashes
        /\ watcher.matchedDetails[watcher.aiItemsLRU[i].hash].operation = OpAdd

\* C7 (as the specification has it): when a hash becomes matched, with
\* whatever operation, no unmatched item of the same file just before it is
\* left that the solver would find from the matched content.
C7_EveryMatchInfersPrecedingItem ==
    [][\A hash \in TrackedHashes :
          (/\ hash \notin watcher.matchedHashes
           /\ hash \in watcher'.matchedHashes)
          => ~PrecedingLeftSolvable(watcher', hash,
                                    findHashIndexInLRU(watcher'.aiItemsLRU, hash))]_vars

\* C9 (as the specification has it): when a batch brings an item that no
\* version holds, followed by an item of the same file that is found, and
\* neither the prefixes nor the paired symbols of the found content give the
\* first item's hash, handleNewAIItems puts the first item in
\* pendingIntermediates.
C9_FailedIntermediateIsPending ==
    \A item, nextItem \in TrackedItems :
        (/\ ~searchInTimeWindow(watcher, item).match.found
         /\ isLikelyIntermediatePair(item, nextItem)
         /\ searchInTimeWindow(watcher, nextItem).match.found
         /\ ~generateIntermediateFromNext(
                 item, searchInTimeWindow(watcher, nextItem).match).found)
        => item \in QueueItems(
               handleNewAIItems(watcher, <<item, nextItem>>).pendingIntermediates)

\* ------------------------------------------------------------------------
\* Properties of the engine's cache and of its eviction
\* ------------------------------------------------------------------------

\* The cache after inferSingleHash(item) in the current state of the engine.
CacheAfter(item) == inferSingleHash(Engine, item, now).eng.cache

C12_CachedResultNeverChanges ==
    \A item \in Items :
        \A k \in 1..Len(hashToContentCache) :
            CacheHas(CacheAfter(item), hashToContentCache[k].hash)
            => CacheGet(CacheAfter(item), hashToContentCache[k].hash)
                   = hashToContentCache[k].result

\* A hash is cached with one line number while an unused record that gives
\* the same hash, on another line, is held: resolving the hash's item again
\* could produce a different result.
C12_Witness ==
    \E item \in Items :
        /\ CacheHas(hashToContentCache, item.hash)
        /\ FindFile(recentLines, item, 1) # 0
        /\ recentLines[FindFile(recentLines, item, 1)]
              .lines[FindRecord(recentLines[FindFile(recentLines, item, 1)].lines, item, 1)]
              .lineNumber # CacheGet(hashToContentCache, item.hash).lineNumber

\* The record that inferSingleHash(item) would consume in the current
\* state: the first match of the first related file that holds one.
RecordFor(item) ==
    recentLines[FindFile(recentLines, item, 1)]
        .lines[FindRecord(recentLines[FindFile(recentLines, item, 1)].lines, item, 1)]

\* C13 (as the specification has it): an item is resolved only from a record
\* whose timestamp is at most TIME_WINDOW before the inference time.
C13_OnlyRecordsInsideTimeWindowUsed ==
    \A item \in Items :
        (/\ item.fileName # NoName
         /\ ~CacheHas(hashToContentCache, item.hash)
         /\ inferSingleHash(Engine, item, now).result # <<>>)
        => now - RecordFor(item).timestamp <= TIME_WINDOW

\* The records of fileName in entries, none when the file has no entry.
LinesOf(entries, fileName) ==
    IF EntryIndex(entries, fileName) = 0 THEN <<>>
    ELSE entries[EntryIndex(entries, fileName)].lines

Unused(lines) == SelectSeq(lines, LAMBDA line : ~line.used)

\* The recorded edit of a record, without the marks of its consumption.
EditOf(record) ==
    [fileName |-> record.fileName, operation |-> record.operation,
     content |-> record.content, lineNumber |-> record.lineNumber,
     timestamp |-> record.timestamp]

EditsOf(lines) == [i \in 1..Len(lines) |-> EditOf(lines[i])]

\* s is t without some of its elements
RECURSIVE IsSubsequence(_, _)
IsSubsequence(s, t) ==
    IF s = <<>> THEN TRUE
    ELSE IF t = <<>> THEN FALSE
    ELSE IF Head(s) = Head(t) THEN IsSubsequence(Tail(s), Tail(t))
    ELSE IsSubsequence(s, Tail(t))

\* The files that hold records.
RecordedFiles(entries) == {entries[k].fileName : k \in 1..Len(entries)}

\* after is before without its used records older than the cutoff and
\* without anything else: per file, the unused records stay as they are and
\* in their order, the used records that stay are those not older than the
\* cutoff, and no file is left with an empty list.
RemovesUsedAndOld(before, after, cutoff) ==
    /\ \A fileName \in RecordedFiles(before) :
          /\ Unused(LinesOf(after, fileName)) = Unused(LinesOf(before, fileName))
          /\ SelectSeq(LinesOf(after, fileName), LAMBDA line : line.used)
                = SelectSeq(LinesOf(before, fileName),
                            LAMBDA line : line.used /\ line.timestamp >= cutoff)
          /\ IsSubsequence(LinesOf(after, fileName), LinesOf(before, fileName))
    /\ RecordedFiles(after) \subseteq RecordedFiles(before)
    /\ \A k \in 1..Len(after) : after[k].lines # <<>>

CleanupRemovesUsedAndOld(maxAge) ==
    RemovesUsedAndOld(recentLines, cleanup(recentLines, now - maxAge), now - maxAge)

\* C14: cleanup removes exactly the used records older than the cutoff, and
\* in every step of the session that records no edit the unused records of
\* every file are still held afterwards, in their order (some of them used
\* by now): an unused record leaves only when recordLineContent trims the
\* file to MAX_LINES_PER_FILE.
C14_CleanupSparesUnusedRecords ==
    [][/\ \A maxAge \in {0, TIME_WINDOW} : CleanupRemovesUsedAndOld(maxAge)
       /\ recordCount' = recordCount
          => \A fileName \in RecordedFiles(recentLines) :
                IsSubsequence(EditsOf(Unused(LinesOf(recentLines, fileName))),
                              EditsOf(LinesOf(recentLines', fileName)))]_vars

\* Monitoring was stopped, which ran cleanup, and an unused record older than
\* the cutoff is still held.
C14_Witness ==
    /\ ~monitor.isActive
    /\ \E k \in 1..Len(recentLines) : \E i \in 1..Len(recentLines[k].lines) :
          /\ ~recentLines[k].lines[i].used
          /\ recentLines[k].lines[i].timestamp < now - TIME_WINDOW
    /\ \E hash \in ItemHashes :
          /\ listenerCalls[hash] > 0
          /\ \A k \in 1..Len(recentLines) : \A i \in 1..Len(recentLines[k].lines) :
                ~recentLines[k].lines[i].used

\* No used record older than TIME_WINDOW is held.
NoExpiredUsedRecord ==
    \A k \in 1..Len(recentLines) : \A i \in 1..Len(recentLines[k].lines) :
        recentLines[k].lines[i].used => recentLines[k].lines[i].timestamp >= now - TIME_WINDOW

\* No snapshot older than MAX_HISTORY_TIME is held.
NoExpiredSnapshot ==
    \A k \in 1..Len(histories) : \A i \in 1..Len(histories[k].lines) :
        histories[k].lines[i].timestamp >= now - MAX_HISTORY_TIME

\* C15 (as the specification has it): after every maintenance tick neither a
\* used record nor a snapshot older than its retention window is held.
C15_MaintenanceDropsExpiredData ==
    [][Maintenance => (NoExpiredUsedRecord /\ NoExpiredSnapshot)']_vars

\* C16 (as the specification has it): while monitoring is stopped the engine
\* holds no record, no cached result and no snapshot.
C16_StopDiscardsSessionState ==
    ~monitor.isActive
    => /\ recentLines = <<>>
       /\ hashToContentCache = <<>>
       /\ histories = <<>>

\* C17 (as the specification has it): no item of the tracking array is handed
\* to the inference engine more than once.
C17_ItemDeliveredAtMostOnce ==
    \A id \in DOMAIN codeAnalyzer.delivered : codeAnalyzer.delivered[id] <= 1

\* C18 (as the specification has it): at most one check for new items is in
\* progress at any time.
C18_AtMostOneCheckInProgress == codeAnalyzer.inFlight <= 1

\* The current run of triggers is shorter than maxDelay.
ShortRun ==
    /\ debouncer.runFirst # NoTime
    /\ debouncer.runLast - debouncer.runFirst < maxDelay

\* C19: a run of triggers, each less than delay after the one before and
\* the whole shorter than maxDelay, is answered by one invocation of the
\* callback: until it is made the timeout is pending for delay after the
\* last trigger with every source of the run, and once it is made it is the
\* only one, made delay after the last trigger with every source of the run.
C19_BurstYieldsOneInvocation ==
    ShortRun =>
        /\ debouncer.runInvocations <= 1
        /\ debouncer.runInvocations = 0 =>
              /\ debouncer.timer = debouncer.runLast + delay
              /\ debouncer.clock <= debouncer.timer
              /\ debouncer.pendingEvents = debouncer.runSources
        /\ debouncer.runInvocations = 1 =>
              /\ debouncer.lastAt = debouncer.runLast + delay
              /\ debouncer.lastSources = debouncer.runSources
              /\ debouncer.pendingEvents = {}

\* A run of three triggers from both sources has been answered.
C19_Witness ==
    /\ ShortRun
    /\ debouncer.runInvocations = 1
    /\ debouncer.runSources = EventSources
    /\ debouncer.runLast - debouncer.runFirst >= 2

\* C20: while events are pending the callback is due no later than
\* maxDelay + delay after the first trigger of the pending events: a timeout
\* is pending for a time within that limit, and the time is not past it.
C20_InvocationWithinCeiling ==
    debouncer.pendingEvents # {} =>
        /\ debouncer.firstTriggerTime # NoTime
        /\ debouncer.timer # NoTimer
        /\ debouncer.timer <= debouncer.firstTriggerTime + maxDelay + delay
        /\ debouncer.clock <= debouncer.timer

\* Triggers a millisecond apart went on until the maximum wait was reached:
\* the callback was invoked by the trigger itself.
C20_Witness ==
    /\ debouncer.runFirst # NoTime
    /\ debouncer.runLast - debouncer.runFirst >= maxDelay
    /\ debouncer.runInvocations >= 1
    /\ debouncer.lastAt = debouncer.runFirst + maxDelay

\* aiItem.metadata?.fileName is there.
WellFormed(aiItem) == aiItem.fileName # NoName

\* A batch with an item that lacks its file name.
MalformedBatches == {batch \in Batches : \E k \in 1..Len(batch) : ~WellFormed(batch[k])}

\* C21: an item without metadata.fileName is skipped on its own:
\* inferHashContents leaves the engine and returns the results exactly as
\* for the batch without that item.
C21_MalformedItemSkippedAlone ==
    \A batch \in MalformedBatches :
        inferHashContents(Engine, batch, now)
            = inferHashContents(Engine, SelectSeq(batch, WellFormed), now)

\* The hash of an item without file name is in the result cache, and
\* the item after it in the batch is resolved.
C21_Witness ==
    \E batch \in MalformedBatches :
        /\ Len(batch) = 2
        /\ ~WellFormed(batch[1])
        /\ CacheHas(hashToContentCache, batch[1].hash)
        /\ Len(inferHashContents(Engine, batch, now).results) = 1

\* The batch without its last item.
Front(batch) == SubSeq(batch, 1, Len(batch) - 1)

\* The last item of a batch is resolved against the engine that the items
\* before it left, and its result follows theirs.
ThenLast(before, last) == [eng |-> last.eng, results |-> before.results \o last.result]

LastAfter(before, aiItem, time) == ThenLast(before, inferSingleHash(before.eng, aiItem, time))

\* C22: a batch is processed in the order given: every item is resolved
\* against the records and the cache as the items before it left them, and
\* the results are returned in the order of their items.
C22_BatchProcessedInOrder ==
    \A batch \in Batches :
        inferHashContents(Engine, batch, now)
            = LastAfter(inferHashContents(Engine, Front(batch), now),
                        batch[Len(batch)], now)

\* The hashes resolved for a batch.
ResolvedHashes(batch) == ResultHashes(inferHashContents(Engine, batch, now).results)

\* Two items compete for one record: which of them is resolved depends on
\* the order of the batch.
C22_Witness ==
    \E batch \in Batches :
        /\ Len(batch) = 2
        /\ ResolvedHashes(batch) = {batch[1].hash}
        /\ ResolvedHashes(<<batch[2], batch[1]>>) = {batch[2].hash}
        /\ batch[1].hash # batch[2].hash

\* A code unit of 0-9 or a-f.
IsLowerHex(c) == (48 <= c /\ c <= 57) \/ (97 <= c /\ c <= 102)

\* HashUtils.isValidHash(hash): /^[a-f0-9]{8}$/
isValidHash(hash) == Len(hash) = 8 /\ \A i \in 1..Len(hash) : IsLowerHex(hash[i])

\* C23 (as the specification has it): every hash that murmurhash3 or
\* calculateCodeHash returns is a string of exactly 8 lowercase hexadecimal
\* characters.
C23_HashHasEightHexDigits == hasher.hash # <<>> => isValidHash(hasher.hash)

\* C24 (as the specification has it): murmurhash3(str, seed) is the
\* MurmurHash3 x86_32 of the code units of str.
C24_HashOfTheCodeUnits ==
    hasher.hash # <<>> => hasher.hash = ToString16(RefMurmur3(hasher.str, hasher.seed))

\* C24: murmurhash3(str, seed) is the MurmurHash3 x86_32 of the low bytes of
\* the code units of str, one byte for each code unit, the number of code
\* units as length.
C24_HashOfTheLowBytes ==
    hasher.hash # <<>>
    => hasher.hash = ToString16(RefMurmur3(LowBytes(hasher.str), hasher.seed))

\* A string of a block and a tail with a code unit above 255 in each, hashed
\* from the seed that is not 0.
C24_Witness ==
    /\ hasher.hash # <<>>
    /\ Len(hasher.str) = 5
    /\ hasher.str[2] > 255
    /\ hasher.str[5] > 255
    /\ hasher.seed # Word(0)

TextLogHel == SubSeq(TextLog, 1, 16)
TextLogHelClosed == TextLogHel \o <<34, 41>>

\* The target of Scenario D as it is written, hash(file, '-', 'console.log("hel'),
\* and as the hash of the text the editor held, console.log("hel").
ScenarioDTargets ==
    {calculateCodeHash(FileA, OpDel, TextLogHel),
     calculateCodeHash(FileA, OpDel, TextLogHelClosed)}

\* C26: Scenario D: on the final content console.log("hello") and the target
\* hash of the partial text console.log("hel, the solver recovers exactly
\* console.log("hel"), the partial text with its quote closed.
C26_ScenarioD ==
    (/\ solver.strategy \in {"next", "pairs"}
     /\ solver.fullContent = TextLog
     /\ solver.suspectedItem.hash \in ScenarioDTargets)
        => (solver.result.found /\ solver.result.content = TextLogHelClosed)

\* The 1-based position that closes the symbol at position o: for a quote or
\* a backtick the nearest later occurrence of the same character, for a
\* bracket the first closer after as many brackets opened as closed; 0 when
\* there is none.
CloserOf(content, o) ==
    IF \E c \in (o + 1)..Len(content) :
          /\ <<content[o], content[c]>> \in pairedSymbols
          /\ Cardinality({k \in (o + 1)..(c - 1) : content[k] = content[o]})
                = Cardinality({k \in (o + 1)..(c - 1) : content[k] = content[c]})
    THEN CHOOSE c \in (o + 1)..Len(content) :
          /\ <<content[o], content[c]>> \in pairedSymbols
          /\ Cardinality({k \in (o + 1)..(c - 1) : content[k] = content[o]})
                = Cardinality({k \in (o + 1)..(c - 1) : content[k] = content[c]})
          /\ \A d \in (o + 1)..(c - 1) :
                ~(/\ <<content[o], content[d]>> \in pairedSymbols
                  /\ Cardinality({k \in (o + 1)..(d - 1) : content[k] = content[o]})
                        = Cardinality({k \in (o + 1)..(d - 1) : content[k] = content[d]}))
    ELSE 0

\* textBefore + open + innerPrefix + close + textAfter
CandidateOf(content, o, c, n) ==
    SubSeq(content, 1, o) \o SubSeq(content, o + 1, o + n) \o SubSeq(content, c, Len(content))

\* The full candidate set that hits the item's hash: <<open, length>>.
CandidateHits(item, content) ==
    {<<o, n>> \in (1..Len(content)) \X (0..Len(content)) :
        /\ CloserOf(content, o) # 0
        /\ n <= CloserOf(content, o) - o - 1
        /\ calculateCodeHash(item.fileName, OpDel,
                             CandidateOf(content, o, CloserOf(content, o), n)) = item.hash}

\* The first hit: pairs in scan order, lengths ascending.
FirstCandidateHit(hits) ==
    CHOOSE hit \in hits :
        \A other \in hits :
            \/ hit[1] < other[1]
            \/ hit[1] = other[1] /\ hit[2] <= other[2]

\* What the strategy returns when it tests the full candidate set.
FullCandidateResult(content, hits) ==
    IF hits = {} THEN <<FALSE, <<>> >>
    ELSE <<TRUE, CandidateOf(content, FirstCandidateHit(hits)[1],
                             CloserOf(content, FirstCandidateHit(hits)[1]),
                             FirstCandidateHit(hits)[2])>>

\* C27: the paired-symbol strategy tests the full candidate set (quotes and
\* backticks paired with the nearest later occurrence, brackets with their
\* closer under nesting, every inner prefix length) and returns the first
\* candidate, pairs in scan order and lengths ascending, that hits the target.
C27_FullCandidateSet ==
    solver.strategy = "pairs" =>
        <<solver.result.found, solver.result.content>>
            = FullCandidateResult(solver.fullContent,
                                  CandidateHits(solver.suspectedItem, solver.fullContent))

\* The lengths i in 0..min(100, trimmedLength) whose prefix
\* fullContent.substring(0, firstNonWhitespaceOffset + i) hits the target.
PrefixHitLengths(item, content) ==
    {i \in 0..Min(100, TrimLength(content)) :
        calculateCodeHash(item.fileName, OpDel,
            SubSeq(content, 1,
                   Min(Len(content),
                       (IF FirstNonSpace(content) = -1 THEN 0 ELSE FirstNonSpace(content)) + i)))
          = item.hash}

ShortestPrefixHit(content, lengths) ==
    SubSeq(content, 1,
           Min(Len(content),
               (IF FirstNonSpace(content) = -1 THEN 0 ELSE FirstNonSpace(content))
                 + (CHOOSE i \in lengths : \A j \in lengths : i <= j)))

PrefixGrowthAnswers(result, content, lengths) ==
    IF lengths = {}
    THEN result.type # "intermediate_state"
    ELSE /\ result.found
         /\ result.type = "intermediate_state"
         /\ result.content = ShortestPrefixHit(content, lengths)

DeletionWithinSnapshot(change, snapshot) ==
    /\ isDelete(change)
    /\ snapshot # NoSnapshot
    /\ change.range.end.line < Len(snapshot.lineContents)

\* One '-' record per line s..e with the snapshot's content of the line, in
\* ascending order of line number, and nothing else.
DeleteRecordsOf(records, snapshot, s, e) ==
    /\ Len(records) = e - s + 1
    /\ \A k \in 1..Len(records) :
          /\ records[k].operation = OpDel
          /\ records[k].lineNumber = s + k - 1
          /\ records[k].content = snapshot.lineContents[s + k]

\* C29: a deletion whose range covers lines s..e of the prior snapshot yields
\* exactly one '-' record per line s..e, each with that line's content in the
\* snapshot, in ascending line-number order, and no '+' record.
C29_DeletionYieldsOneRecordPerLine ==
    (/\ Len(monitor.lastEvent.contentChanges) = 1
     /\ DeletionWithinSnapshot(monitor.lastEvent.contentChanges[1], monitor.lastEvent.snapshot))
        => DeleteRecordsOf(monitor.lastEvent.records, monitor.lastEvent.snapshot,
                           monitor.lastEvent.contentChanges[1].range.start.line,
                           monitor.lastEvent.contentChanges[1].range.end.line)

\* Scenario C: the lines a, b, c deleted against the snapshot a, b, c gave
\* three '-' records a, b, c at lines 0, 1, 2.
C29_Witness ==
    /\ Len(monitor.lastEvent.contentChanges) = 1
    /\ isDelete(monitor.lastEvent.contentChanges[1])
    /\ monitor.lastEvent.snapshot.lineContents = <<LineA, LineB, LineC>>
    /\ monitor.lastEvent.contentChanges[1].range.start.line = 0
    /\ monitor.lastEvent.contentChanges[1].range.end.line = 2
    /\ [k \in 1..Len(monitor.lastEvent.records) |->
            <<monitor.lastEvent.records[k].operation, monitor.lastEvent.records[k].content,
              monitor.lastEvent.records[k].lineNumber>>]
          = << <<OpDel, LineA, 0>>, <<OpDel, LineB, 1>>, <<OpDel, LineC, 2>> >>

\* C30: one live snapshot per file, replaced on each edit: after an edit
\* event of a file has been handled the stored snapshot has the document's
\* current version and line contents, and the snapshot consulted for the
\* records of the event is the one taken before it.
C30_SnapshotIsTheDocument ==
    \A fileName \in DocFiles :
        monitor.lastEvent.fileName = fileName =>
            /\ monitor.documentSnapshots[fileName].version = monitor.documents[fileName].version
            /\ monitor.documentSnapshots[fileName].lineContents
                  = monitor.documents[fileName].lines
            /\ monitor.lastEvent.snapshot # NoSnapshot =>
                  monitor.lastEvent.snapshot.version < monitor.documents[fileName].version

\* ------------------------------------------------------------------------
\* Properties of the version history
\* ------------------------------------------------------------------------

\* The snapshots held for a file, none when the file is unknown.
FileHistoryOf(entries, fileName) ==
    IF EntryIndex(entries, fileName) = 0 THEN <<>>
    ELSE entries[EntryIndex(entries, fileName)].lines

\* The snapshot the claim names: of those whose version is at most
\* priorVersion, the one of the greatest version; 0 when there is none.
UsedSnapshot(fileHistory, priorVersion) ==
    IF \E i \in 1..Len(fileHistory) : fileHistory[i].version <= priorVersion
    THEN CHOOSE i \in 1..Len(fileHistory) :
            /\ fileHistory[i].version <= priorVersion
            /\ \A j \in 1..Len(fileHistory) :
                  fileHistory[j].version <= priorVersion =>
                     fileHistory[j].version <= fileHistory[i].version
    ELSE 0

\* A position lies inside the lines: its line exists and its character is
\* at most the length of that line.
Inside(lines, position) ==
    /\ position.line < Len(lines)
    /\ position.character <= Len(lines[position.line + 1])

\* The offset of a position in the text of the lines joined by line breaks.
RECURSIVE OffsetOf(_, _, _)
OffsetOf(lines, line, character) ==
    IF line = 0 THEN character
    ELSE Len(lines[1]) + 1 + OffsetOf(Tail(lines), line - 1, character)

\* The text between the start and the end of a range.
TextBetween(lines, range) ==
    SubSeq(JoinLines(lines, LF),
           OffsetOf(lines, range.start.line, range.start.character) + 1,
           OffsetOf(lines, range.end.line, range.end.character))

\* A range of one line that starts at the end of that line.
StartsAtLineEnd(lines, range) ==
    /\ range.start.line = range.end.line
    /\ range.start.character = Len(lines[range.start.line + 1])

\* What the claim expects of a call, given the snapshot it names.
ExpectedOfSnapshot(fileHistory, used, range, result) ==
    /\ used = 0 => result = NoDeletedContent
    /\ (used # 0 /\ Inside(fileHistory[used].lines, range.start)
                 /\ Inside(fileHistory[used].lines, range.end)) =>
          result = DeletedContent(TextBetween(fileHistory[used].lines, range), range)

\* The same, with the range that starts at the end of its only line apart:
\* it has no result.
ExpectedOfSnapshotButLineEnd(fileHistory, used, range, result) ==
    /\ used = 0 => result = NoDeletedContent
    /\ (used # 0 /\ Inside(fileHistory[used].lines, range.start)
                 /\ Inside(fileHistory[used].lines, range.end)) =>
          IF StartsAtLineEnd(fileHistory[used].lines, range)
          THEN result = NoDeletedContent
          ELSE result = DeletedContent(TextBetween(fileHistory[used].lines, range), range)

\* C31 as stated: getDeletedContent uses the snapshot of priorVersion or the
\* one of the greatest version below it, has no result when there is none,
\* and for every range inside that snapshot returns the text between the
\* range's start and end.
C31_DeletedContentIsTheRangeText ==
    deleted.fileName # NoFile =>
        ExpectedOfSnapshot(FileHistoryOf(deleted.histories, deleted.fileName),
                           UsedSnapshot(FileHistoryOf(deleted.histories, deleted.fileName),
                                        deleted.beforeVersion),
                           deleted.range, deleted.result)

\* C31 amended: the same for every range inside the snapshot except a range
\* of one line that starts at the end of that line (an empty range at the
\* end of a line, or on an empty line), for which there is no result.
C31_DeletedContentButAtLineEnd ==
    deleted.fileName # NoFile =>
        ExpectedOfSnapshotButLineEnd(
            FileHistoryOf(deleted.histories, deleted.fileName),
            UsedSnapshot(FileHistoryOf(deleted.histories, deleted.fileName),
                         deleted.beforeVersion),
            deleted.range, deleted.result)

\* A range from "b" of the first line to "c" of the third, over the empty
\* second line, is reconstructed from the snapshot of version 1 for the
\* prior version 2, which was not recorded.
C31_Witness ==
    /\ deleted.fileName = FileA
    /\ deleted.beforeVersion = 2
    /\ FindVersion(FileHistoryOf(deleted.histories, FileA), 2) = 0
    /\ deleted.range = Range(Position(0, 1), Position(2, 1))
    /\ deleted.result.content = LineB \o LF \o LF \o LineC

\* ------------------------------------------------------------------------
\* Properties of the commit analysis
\* ------------------------------------------------------------------------

\* The stored lines: every <<absolutePath, codeLine>> of the storage.
StoredRecords(fileStats) ==
    UNION {{<<fileStats[k].absolutePath, fileStats[k].codeLines[i]>> :
               i \in 1..Len(fileStats[k].codeLines)} : k \in 1..Len(fileStats)}

\* The record the specification asks for, for a diff line of a commit: the
\* stored path ends with the diff path, the trimmed contents are equal, the
\* record is not after the commit and at most the window before it.
Attributes(record, filename, content, commitTimestamp) ==
    /\ EndsWith(record[1], filename)
    /\ Trim(record[2].content) = Trim(content)
    /\ record[2].timestamp <= commitTimestamp
    /\ commitTimestamp - record[2].timestamp <= MAX_TIME_WINDOW

\* The diff lines of an analysis, added and deleted.
AnalysedLines(analysis) ==
    {analysis.files[f].addedLines[n] : <<f, n>> \in
        UNION {{<<f, n>> : n \in 1..Len(analysis.files[f].addedLines)} :
                  f \in 1..Len(analysis.files)}}
    \cup
    {analysis.files[f].deletedLines[n] : <<f, n>> \in
        UNION {{<<f, n>> : n \in 1..Len(analysis.files[f].deletedLines)} :
                  f \in 1..Len(analysis.files)}}

\* Every line of the analysis for which the storage holds such a record is tagged.
RecordTagsLine(fileStats, commit, analysis) ==
    \A line \in AnalysedLines(analysis) :
        (\E record \in StoredRecords(fileStats) :
            Attributes(record, commit.filename, line.content, commit.timestamp))
        => line.isAIGenerated

\* Every tagged line of the analysis has such a record in the storage.
TaggedLineHasRecord(fileStats, commit, analysis) ==
    \A line \in AnalysedLines(analysis) :
        line.isAIGenerated =>
            \E record \in StoredRecords(fileStats) :
                Attributes(record, commit.filename, line.content, commit.timestamp)

\* C32: a diff line is tagged AI-attributed whenever the storage holds a
\* record whose path ends with the diff path, whose trimmed content equals
\* the line's, whose timestamp is at most the commit's and whose age at the
\* commit is at most the window (both bounds included).
C32_MatchingRecordTagsTheLine ==
    [][\A commit \in Commits :
          (AnalyzeCommit(commit) /\ gitAnalyzer'.last.served = "computed") =>
              RecordTagsLine(aiCodeStorage.fileStats, commit, gitAnalyzer'.last.analysis)]_vars

\* C33: a diff line is tagged AI-attributed only if the storage holds a
\* record of a path that ends with the diff path, of equal trimmed content,
\* not after the commit and at most the window before it.
C33_TaggedLineHasMatchingRecord ==
    [][\A commit \in Commits :
          (AnalyzeCommit(commit) /\ gitAnalyzer'.last.served = "computed") =>
              TaggedLineHasRecord(aiCodeStorage.fileStats, commit,
                                  gitAnalyzer'.last.analysis)]_vars

\* What an analysis of a commit does with the entry the cache holds for it
\* and the version stamp of the storage at the call.
ServedByStamp(entry, stamp, commit, fileStats, after) ==
    IF entry # NoCached /\ entry.aiStorageVersion = stamp
    THEN /\ after.last.served = "cache"
         /\ after.last.analysis = entry.analysis
         /\ after.cache[commit.hash] = entry
    ELSE /\ after.last.served = "computed"
         /\ after.last.analysis = CommitAnalysis(fileStats, commit)
         /\ after.cache[commit.hash].aiStorageVersion = stamp
         /\ after.cache[commit.hash].analysis = CommitAnalysis(fileStats, commit)

\* C34: an analysis of a commit returns the cached result exactly when the
\* cache holds an entry of the commit whose recorded version stamp equals
\* the current stamp of the storage; otherwise (no entry, or the stamp has
\* changed) the analysis is computed from the storage as it is and cached
\* under the current stamp.  The entries of the other commits are untouched.
C34_CacheServedWhileStampUnchanged ==
    [][\A commit \in Commits :
          AnalyzeCommit(commit) =>
              /\ ServedByStamp(gitAnalyzer.cache[commit.hash],
                               getAIStorageVersion(aiCodeStorage, now), commit,
                               aiCodeStorage.fileStats, gitAnalyzer')
              /\ \A other \in CommitHashes \ {commit.hash} :
                    gitAnalyzer'.cache[other] = gitAnalyzer.cache[other]]_vars

\* A second analysis of c1, at a later time, is served from the cache: the
\* storage has been written once and its stamp is the one cached.
C34_Witness ==
    /\ gitAnalyzer.last.hash = CommitC1.hash
    /\ gitAnalyzer.last.served = "cache"
    /\ aiCodeStorage.statsFile # NoStatsFile
    /\ gitAnalyzer.cache[CommitC1.hash].aiStorageVersion = aiCodeStorage.statsFile
    /\ gitAnalyzer.cache[CommitC1.hash].analyzedAt < now
    /\ gitAnalyzer.last.analysis.files[1].addedLines[1].isAIGenerated

\* ------------------------------------------------------------------------
\* Properties of the database watch
\* ------------------------------------------------------------------------

\* Nothing of the watch is left: no FSWatcher is open, no restart timeout
\* is armed, no debounce timeout is pending, and both maps are empty.
NothingLeft(db) ==
    /\ db.open = {}
    /\ db.timeouts = {}
    /\ db.eventDebouncer.timer = NoTimer
    /\ db.eventDebouncer.pendingEvents = {}
    /\ db.dbWatchers = {}
    /\ db.restartTimers = {}

\* C35: after the database watch has been stopped, and until watching is
\* started again, no file watcher exists, no restart timer is pending that
\* would re-create one, and no debounced check is delivered: every step
\* that ends in the stopped state leaves nothing of the watch, and a step
\* taken in the stopped state delivers no check.
C35_StoppedWatchIsQuiet ==
    [][database'.monitoring = "stopped" =>
          /\ NothingLeft(database')
          /\ database.monitoring = "stopped" => database'.delivered = database.delivered]_vars

\* A stop that closed watchers, cleared a restart timer and a pending
\* debounce, and after which the restart delay has passed.
C35_Witness ==
    /\ database.monitoring = "stopped"
    /\ database.stoppedCount > 0
    /\ database.clearedTimers > 0
    /\ database.clearedPending
    /\ database.eventDebouncer.clock >= database.stoppedAt + RestartDelay

\* ------------------------------------------------------------------------
\* Properties of the scan of the records
\* ------------------------------------------------------------------------

\* Equal, one containing the other, or equal base name.
RelatedNames(a, b) ==
    a = b \/ Includes(a, b) \/ Includes(b, a) \/ BaseName(a) = BaseName(b)

\* The spellings tried for an item's file name: the name as given and, for
\* an absolute name, the workspace-relative one.
SpellingsOf(fileName) ==
    {fileName} \cup (IF isAbsolutePath(fileName) THEN {getRelativeFileName(fileName)} ELSE {})

\* The places of the unused records of related files that carry the item's
\* hash under one of the spellings.
ScanPlaces(entries, item) ==
    {place \in RecordPlaces(entries) :
        /\ RelatedNames(item.fileName, entries[place[1]].fileName)
        /\ ~RecordAt(entries, place).used
        /\ \E name \in SpellingsOf(item.fileName) :
              calculateCodeHash(name, RecordAt(entries, place).operation,
                                RecordAt(entries, place).content) = item.hash}

\* Scan order: files in the cache's insertion order, records in insertion
\* order within a file.
ScansBefore(p, q) == p[1] < q[1] \/ (p[1] = q[1] /\ p[2] <= q[2])

FirstScanned(places) == CHOOSE p \in places : \A q \in places : ScansBefore(p, q)

\* The records after a scan are the records before it, with exactly the
\* record at the given places marked used.
OnlyMarked(before, after, places) ==
    /\ Len(after) = Len(before)
    /\ \A k \in 1..Len(before) :
          /\ after[k].fileName = before[k].fileName
          /\ Len(after[k].lines) = Len(before[k].lines)
    /\ \A place \in RecordPlaces(before) :
          RecordAt(after, place) =
              IF place \in places
              THEN [RecordAt(before, place) EXCEPT !.used = TRUE, !.consumers = @ + 1]
              ELSE RecordAt(before, place)

\* C36: first match wins in scan order. For an item with a file name whose
\* hash is not cached, inferSingleHash consumes the first, in scan order,
\* of the unused records of related files that carry the hash under the
\* name as given or, for an absolute name, under the workspace-relative
\* spelling: that record alone is marked used and its content and operation
\* are the result; if there is none, nothing is marked and there is no
\* result. No record of an unrelated file is consumed.
C36_FirstMatchInScanOrder ==
    \A item \in ScanItems :
        ~CacheHas(hashToContentCache, item.hash) =>
            LET after == inferSingleHash(Engine, item, now)
                places == ScanPlaces(recentLines, item)
            IN IF places = {}
               THEN after.result = <<>> /\ after.eng.lines = recentLines
               ELSE /\ Len(after.result) = 1
                    /\ after.result[1].content = RecordAt(recentLines, FirstScanned(places)).content
                    /\ after.result[1].operation = RecordAt(recentLines, FirstScanned(places)).operation
                    /\ after.result[1].lineNumber = RecordAt(recentLines, FirstScanned(places)).lineNumber
                    /\ OnlyMarked(recentLines, after.eng.lines, {FirstScanned(places)})

\* An item not yet cached has matching unused records in two related files
\* and in an unrelated file that comes first in the cache; the record it
\* would consume is in a file named otherwise than the item, and the hash
\* of a:+x has been resolved before.
C36_Witness ==
    \E item \in ScanItems :
        /\ ~CacheHas(hashToContentCache, item.hash)
        /\ \E p, q \in ScanPlaces(recentLines, item) : p[1] # q[1]
        /\ recentLines[FirstScanned(ScanPlaces(recentLines, item))[1]].fileName # item.fileName
        /\ ~RelatedNames(item.fileName, recentLines[1].fileName)
        /\ RecordAt(recentLines, <<1, 1>>).operation = OpAdd
        /\ ~RecordAt(recentLines, <<1, 1>>).used
        /\ CacheHas(hashToContentCache, calculateCodeHash(FileA, OpAdd, TextX))

\* ------------------------------------------------------------------------
\* Properties of the intermediate-state solver's results
\* ------------------------------------------------------------------------

\* C37: every result the intermediate-state solver produces, by prefix
\* growth or by paired-symbol completion, has operation '-' and a content
\* whose hash under the item's file name and '-' is the item's hash; the
\* content is the known full content with characters removed only: a prefix
\* of it for prefix growth, the full content with the interior of one
\* symbol pair truncated for paired-symbol completion.
C37_ResultIsDeletionOfFullContent ==
    solver.result.found =>
        /\ solver.result.operation = OpDel
        /\ calculateCodeHash(solver.suspectedItem.fileName, OpDel, solver.result.content)
             = solver.suspectedItem.hash
        /\ solver.result.type \in {"intermediate_state", "paired_symbol_intermediate"}
        /\ solver.result.type = "intermediate_state" =>
             solver.result.content \in PrefixesOf(solver.fullContent)
        /\ solver.result.type = "paired_symbol_intermediate" =>
             solver.result.content \in RebuildsOf(solver.fullContent)

\* Prefix growth found nothing and the paired symbols answered with a
\* content shorter than the full content that is not a prefix of it.
C37_Witness ==
    /\ solver.strategy = "next"
    /\ solver.result.found
    /\ solver.result.type = "paired_symbol_intermediate"
    /\ Len(solver.result.content) < Len(solver.fullContent)
    /\ solver.result.content \notin PrefixesOf(solver.fullContent)

\* ------------------------------------------------------------------------
\* Properties of the cascade of markAsMatched
\* ------------------------------------------------------------------------

\* The match results markAsMatched is given: a line of a version, added or
\* deleted.
DirectMatches ==
    {LineResult(1, line, op) : line \in {TextFull, TextPair, TextX}, op \in {OpAdd, OpDel}}

\* The hash of the item just before the first occurrence of hash in the
\* tracking array, if there is one.
PrecedingHashes(w, hash) ==
    IF findHashIndexInLRU(w.aiItemsLRU, hash) > 1
    THEN {w.aiItemsLRU[findHashIndexInLRU(w.aiItemsLRU, hash) - 1].hash}
    ELSE {}

\* C38: resolving an item triggers at most one cascaded inference.
\* markAsMatched(hash, matchResult) ends, for every hash and every match;
\* for a match whose operation is not '+' it only stores the match; for a
\* '+' match it resolves besides the hash at most the item just before it,
\* with a result of operation '-', and no item two or more positions
\* before the direct match.
C38_CascadeEndsAfterOneStep ==
    \A hash \in TrackedHashes : \A matchResult \in DirectMatches :
        LET after == markAsMatched(watcher, hash, matchResult)
        IN /\ matchResult.operation # OpAdd =>
                 after = markAsMatchedOnly(watcher, hash, matchResult)
           /\ (after.matchedHashes \ watcher.matchedHashes)
                 \subseteq ({hash} \cup PrecedingHashes(watcher, hash))
           /\ \A h \in (after.matchedHashes \ watcher.matchedHashes) \ {hash} :
                 /\ after.matchedDetails[h].operation = OpDel
                 /\ after.matchedDetails[h].type = "intermediate_state"
           /\ \A h \in TrackedHashes \ ({hash} \cup PrecedingHashes(watcher, hash)) :
                 after.matchedDetails[h] = watcher.matchedDetails[h]

\* Three items of one file in a row: the last is matched with '+', the one
\* before it has been resolved by the inference from it, and the first is
\* still unmatched although the solver finds it from the inferred content.
C38_Witness ==
    \E i \in 3..Len(watcher.aiItemsLRU) :
        /\ watcher.aiItemsLRU[i].hash \in watcher.matchedHashes
        /\ watcher.matchedDetails[watcher.aiItemsLRU[i].hash].operation = OpAdd
        /\ watcher.aiItemsLRU[i - 1].hash \in watcher.matchedHashes
        /\ watcher.matchedDetails[watcher.aiItemsLRU[i - 1].hash].type = "intermediate_state"
        /\ watcher.matchedDetails[watcher.aiItemsLRU[i - 1].hash].operation = OpDel
        /\ watcher.aiItemsLRU[i - 2].fileName = watcher.aiItemsLRU[i - 1].fileName
        /\ watcher.aiItemsLRU[i - 2].hash \notin watcher.matchedHashes
        /\ generateIntermediateFromNext(watcher.aiItemsLRU[i - 2],
               watcher.matchedDetails[watcher.aiItemsLRU[i - 1].hash]).found

\* ------------------------------------------------------------------------
\* Properties of the matched set and the unresolved queue
\* ------------------------------------------------------------------------

\* C39: no hash is at the same time in the matched set and in the
\* unresolved queue: after any sequence of new-item batches, new-file
\* events and retries, every item that has been marked matched is absent
\* from the unresolved queue.
C39_MatchedItemNotQueued ==
    \A i \in 1..Len(watcher.unmatchedAIItems) :
        watcher.unmatchedAIItems[i].hash \notin watcher.matchedHashes

\* ------------------------------------------------------------------------
\* Properties of the delivery of appended items
\* ------------------------------------------------------------------------

\* C40: no appended item is missed. However the tracking array evolves
\* (items appended at its end, old items dropped from its front), an item
\* appended after initialization is delivered to the inference engine by
\* the first checkForNewItems that runs after it was appended: when a check
\* completes, every item the tracking array holds has been delivered.
C40_NoAppendedItemMissed ==
    [][codeAnalyzer'.inFlight < codeAnalyzer.inFlight =>
          \A k \in 1..Len(feed) : codeAnalyzer'.delivered[feed[k].id] >= 1]_vars

====
